---- MODULE Spec2Model ----
(***************************************************************************)
(* Model of the swimrs mirror: the request store (swimrs-cli/src/db.rs),   *)
(* the producer / worker pipeline (swimrs-cli/src/mirror.rs), the request  *)
(* identity (swimrs/src/usas/toptimes.rs) and the partitioner              *)
(* (src/usas/mirror.rs).                                                   *)
(***************************************************************************)
EXTENDS Integers, Sequences, FiniteSets, TLC

VARIABLES
    from_date,      \* start_mirror argument: first day of the window
    to_date,        \* start_mirror argument: last day of the window
    sent,           \* produce_requests: number of req_tx.send calls done in this run
    queue,          \* the unbounded async channel (req_tx / req_rx), FIFO
    pc,             \* process_requests: position of each worker task
    cur,            \* process_requests: `req` held by each worker (<<>> when none)
    res,            \* process_request: Result<u32> being built / returned
    requests,       \* rows of the sqlite table `requests`
    results,        \* results/<id>/results.csv files: set of <<id, rows written>>
    nfail,          \* failed process_request attempts so far (model counter)
    run,            \* number of restarts of the process so far (model counter)
    calls,          \* store harness: calls executed so far, with their results
    before,         \* store harness: table content before the last call
    root_req,       \* atomize: the argument `req`
    by,             \* atomize: the arguments by_course .. by_zone
    atomize_queue,  \* atomize: the local VecDeque `queue`
    output,         \* atomize: the local Vec `output`
    divided,        \* atomize: the request popped last and what divide returned for it
    pops,           \* atomize: iterations of the while-let loop so far (model counter)
    pair,           \* identity harness: the two requests that are formatted
    ids,            \* identity harness: the Display impl applied and the two strings
    glob_set,       \* legacy mirror: the DashSet `set` built from the result.csv files
    unsent,         \* legacy mirror: requests of the shuffled Vec not yet iterated over
    warnings,       \* legacy mirror: ids whose directory holds a warning.txt
    cookies,        \* clients whose cookie store was filled by populate_cookies
    http,           \* per worker: the request fetch_html sent and what the remote does with it
    active_count,   \* the gauge swimrs_mirror_request_active_count
    doomed,         \* ids the remote answers with an error status every time
    pace,           \* pacing harness: the instants of one loop iteration and its sleep
    window,         \* gen_requests_smart: the arguments from_date and to_date
    generated,      \* gen_requests_smart: the Vec `requests` built so far
    proxies,        \* transport harness: two clients of the pool and their proxy ports
    wire            \* transport harness: the client and the proxy port of each fetch made

pipelineVars == <<from_date, to_date, sent, queue, pc, cur, res, requests, results,
                  nfail, run, cookies>>
storeVars == <<calls, before>>
atomizeVars == <<root_req, by, atomize_queue, output, divided, pops>>
identityVars == <<pair, ids>>
legacyVars == <<glob_set, unsent, warnings>>
taskVars == <<http, active_count, doomed>>
paceVars == <<pace>>
smartVars == <<window, generated>>
transportVars == <<proxies, wire>>
harnessVars == <<taskVars, paceVars, smartVars, transportVars>>
otherVars == <<atomizeVars, identityVars, legacyVars, harnessVars>>

vars == <<pipelineVars, storeVars, otherVars>>

----------------------------------------------------------------------------
(* Bounds *)

NumClients == 2     \* worker tasks start_mirror spawns (--clients)
MaxFailures == 2    \* failed process_request attempts in a behaviour
MaxRestarts == 1    \* times the process is killed and started again
MaxDbCalls == 3     \* store harness: calls made on the table
MaxCount == 1       \* store harness: largest num_results passed
MaxSpan == 3        \* atomize harness: largest distance in days between from_date and to_date
MaxPops == 60       \* atomize harness: iterations of the loop of atomize that are followed
MaxAge == 31        \* largest age of a swimmer the facet tuples range over
TicksPerSec == 2    \* pacing harness: resolution of the clock
MaxTicks == 24      \* pacing harness: longest wait and longest processing time
RandSteps == 5      \* pacing harness: values of the random number
MaxDays == 2        \* gen_requests_smart: longest window in days
LastDay == 4        \* the last day of the calendar

----------------------------------------------------------------------------
(* Facet model *)

None == <<>>
Some(x) == <<x>>

COURSES == <<"SCY", "SCM", "LCM">>
IND_STROKES == <<"Freestyle", "Backstroke", "Breaststroke", "Butterfly", "IndividualMedley">>
DISTANCES == <<50, 100, 200, 400, 500, 800, 1000, 1500, 1650>>
ZONES == <<"Central", "Eastern", "Southern", "Western">>

SwimEvent(distance, stroke, course) == <<distance, stroke, course>>

EventsOf(course, stroke, dists) == {SwimEvent(d, stroke, course) : d \in dists}

VALID_EVENTS ==
    EventsOf("SCY", "Freestyle", {50, 100, 200, 500, 1000, 1650})
    \cup EventsOf("SCY", "Backstroke", {50, 100, 200})
    \cup EventsOf("SCY", "Breaststroke", {50, 100, 200})
    \cup EventsOf("SCY", "Butterfly", {50, 100, 200})
    \cup EventsOf("SCY", "IndividualMedley", {100, 200, 400})
    \cup EventsOf("SCM", "Freestyle", {50, 100, 200, 400, 800, 1500})
    \cup EventsOf("SCM", "Backstroke", {50, 100, 200})
    \cup EventsOf("SCM", "Breaststroke", {50, 100, 200})
    \cup EventsOf("SCM", "Butterfly", {50, 100, 200})
    \cup EventsOf("SCM", "IndividualMedley", {100, 200, 400})
    \cup EventsOf("LCM", "Freestyle", {50, 100, 200, 400, 800, 1500})
    \cup EventsOf("LCM", "Backstroke", {50, 100, 200})
    \cup EventsOf("LCM", "Breaststroke", {50, 100, 200})
    \cup EventsOf("LCM", "Butterfly", {50, 100, 200})
    \cup EventsOf("LCM", "IndividualMedley", {200, 400})

----------------------------------------------------------------------------
(* TopTimesRequest and its identity *)

\* impl Default for TopTimesRequest; `today` stands for Local::now().
TopTimesRequestDefault(today) ==
    [gender |-> "Mixed", distance |-> 0, stroke |-> "All", course |-> "All",
     from_date |-> today, to_date |-> today,
     start_age |-> None, end_age |-> None, zone |-> "All", lscs |-> None,
     time_type |-> "Individual", members_only |-> FALSE, best_only |-> FALSE,
     max_results |-> 50000]

\* strum Display of the enums: the `serialize` name when there is one, else
\* the variant name.
DisplayStroke(s) ==
    CASE s = "Freestyle" -> "FR"
      [] s = "Backstroke" -> "BK"
      [] s = "Breaststroke" -> "BR"
      [] s = "Butterfly" -> "FL"
      [] s = "IndividualMedley" -> "IM"
      [] s = "FreestyleRelay" -> "FR-R"
      [] s = "MedleyRelay" -> "MED-R"
      [] OTHER -> s

DisplayDistance(d) ==
    CASE d = 0 -> "All"
      [] d = 50 -> "_50"
      [] d = 100 -> "_100"
      [] d = 200 -> "_200"
      [] d = 400 -> "_400"
      [] d = 500 -> "_500"
      [] d = 800 -> "_800"
      [] d = 1000 -> "_1000"
      [] d = 1500 -> "_1500"
      [] d = 1650 -> "_1650"

DisplayBool(b) == IF b THEN "true" ELSE "false"

\* A rendered field is a pair <<text, number>>: the text part of the field
\* and the number that is printed in decimal after it (-1 when there is none).
Text(s) == <<s, -1>>
Decimal(n) == <<"", n>>

DisplayAge(a) == IF a = None THEN Text("All") ELSE Decimal(a[1])

DisplayLscs(l) == IF l = None THEN Text("All") ELSE Text(l[1])

\* impl Display for TopTimesRequest: the fields in the order of the format
\* string "{}/{}_{}_{}/{}_{}/{}_{}_{}_{}/{}_{}/{}_{}".
to_string(req) ==
    << Text(req.gender), Text(req.course), Text(DisplayStroke(req.stroke)),
       Text(DisplayDistance(req.distance)), Text(req.zone), DisplayLscs(req.lscs),
       Text(req.time_type), Text(DisplayBool(req.members_only)),
       Text(DisplayBool(req.best_only)), Decimal(req.max_results),
       DisplayAge(req.start_age), DisplayAge(req.end_age),
       Decimal(req.from_date), Decimal(req.to_date) >>

LowerText(s) ==
    CASE s = "Male" -> "male"
      [] s = "Female" -> "female"
      [] s = "Mixed" -> "mixed"
      [] s = "All" -> "all"
      [] s = "SCY" -> "scy"
      [] s = "SCM" -> "scm"
      [] s = "LCM" -> "lcm"
      [] s = "FR" -> "fr"
      [] s = "BK" -> "bk"
      [] s = "BR" -> "br"
      [] s = "FL" -> "fl"
      [] s = "IM" -> "im"
      [] s = "FR-R" -> "fr-r"
      [] s = "MED-R" -> "med-r"
      [] s = "Central" -> "central"
      [] s = "Eastern" -> "eastern"
      [] s = "Southern" -> "southern"
      [] s = "Western" -> "western"
      [] s = "Individual" -> "individual"
      [] s = "Relay" -> "relay"
      [] OTHER -> s

to_lowercase(str) == [i \in DOMAIN str |-> <<LowerText(str[i][1]), str[i][2]>>]

\* let req_id = &req.to_string().to_lowercase();
ReqId(req) == to_lowercase(to_string(req))

----------------------------------------------------------------------------
(* Partitioner (src/usas/mirror.rs) *)

\* i64 division of chrono's num_days() / 2: truncates toward zero.
TruncDiv2(n) == IF n >= 0 THEN n \div 2 ELSE -((-n) \div 2)

DivideByCourse(req) == [i \in 1..Len(COURSES) |-> [req EXCEPT !.course = COURSES[i]]]

DivideByStroke(req) == [i \in 1..Len(IND_STROKES) |-> [req EXCEPT !.stroke = IND_STROKES[i]]]

\* Mutant: the distances are not pruned by VALID_EVENTS.
DivideByDistance_unpruned(req) ==
    [i \in 1..Len(DISTANCES) |-> [req EXCEPT !.distance = DISTANCES[i]]]

DivideByDistance(req) ==
    LET ds == SelectSeq(DISTANCES,
                        LAMBDA d : SwimEvent(d, req.stroke, req.course) \in VALID_EVENTS)
    IN [i \in 1..Len(ds) |-> [req EXCEPT !.distance = ds[i]]]

\* Mutant: the right half starts one day late.
DivideByDate_gap(req) ==
    LET mid == TruncDiv2(req.to_date - req.from_date)
        left == IF mid = 0
                THEN [req EXCEPT !.to_date = req.from_date]
                ELSE [req EXCEPT !.to_date = req.from_date + (mid - 1)]
        rfrom == req.from_date + mid + 1
        right == IF mid = 0
                 THEN [req EXCEPT !.from_date = req.to_date]
                 ELSE [req EXCEPT !.from_date =
                                     IF rfrom > req.to_date THEN req.to_date ELSE rfrom]
    IN <<left, right>>

\* Mutant: the left half ends one day late.
DivideByDate_overlap(req) ==
    LET mid == TruncDiv2(req.to_date - req.from_date)
        left == IF mid = 0
                THEN [req EXCEPT !.to_date = req.from_date]
                ELSE [req EXCEPT !.to_date = req.from_date + mid]
        rfrom == req.from_date + mid
        right == IF mid = 0
                 THEN [req EXCEPT !.from_date = req.to_date]
                 ELSE [req EXCEPT !.from_date =
                                     IF rfrom > req.to_date THEN req.to_date ELSE rfrom]
    IN <<left, right>>

\* Mutant: the right half is pushed twice.
DivideByDate_twice(req) ==
    LET mid == TruncDiv2(req.to_date - req.from_date)
        left == IF mid = 0
                THEN [req EXCEPT !.to_date = req.from_date]
                ELSE [req EXCEPT !.to_date = req.from_date + (mid - 1)]
        rfrom == req.from_date + mid
        right == IF mid = 0
                 THEN [req EXCEPT !.from_date = req.to_date]
                 ELSE [req EXCEPT !.from_date =
                                     IF rfrom > req.to_date THEN req.to_date ELSE rfrom]
    IN <<left, right, right>>

\* Mutant: the range is cut before its last day.
DivideByDate_late(req) ==
    <<[req EXCEPT !.to_date = req.to_date - 1], [req EXCEPT !.from_date = req.to_date]>>

DivideByDate(req) ==
    LET mid == TruncDiv2(req.to_date - req.from_date)
        left == IF mid = 0
                THEN [req EXCEPT !.to_date = req.from_date]
                ELSE [req EXCEPT !.to_date = req.from_date + (mid - 1)]
        rfrom == req.from_date + mid
        right == IF mid = 0
                 THEN [req EXCEPT !.from_date = req.to_date]
                 ELSE [req EXCEPT !.from_date =
                                     IF rfrom > req.to_date THEN req.to_date ELSE rfrom]
    IN <<left, right>>

\* Mutant: the first bucket is 0..6 and overlaps the bucket of age 6.
DivideByAge_overlap(req) ==
    <<[req EXCEPT !.start_age = Some(0), !.end_age = Some(6)]>>
    \o [i \in 1..24 |-> [req EXCEPT !.start_age = Some(i + 5), !.end_age = Some(i + 5)]]
    \o <<[req EXCEPT !.start_age = Some(30), !.end_age = None]>>

\* Mutant: the age range is cut into two halves.
DivideByAge_bisect(req) ==
    <<[req EXCEPT !.start_age = Some(0), !.end_age = Some(25)],
      [req EXCEPT !.start_age = Some(26), !.end_age = None]>>

\* Mutant: the loop of single ages starts at 7 and leaves age 6 out.
DivideByAge_gap(req) ==
    <<[req EXCEPT !.start_age = Some(0), !.end_age = Some(5)]>>
    \o [i \in 1..23 |-> [req EXCEPT !.start_age = Some(i + 6), !.end_age = Some(i + 6)]]
    \o <<[req EXCEPT !.start_age = Some(30), !.end_age = None]>>

DivideByAge(req) ==
    <<[req EXCEPT !.start_age = Some(0), !.end_age = Some(5)]>>
    \o [i \in 1..24 |-> [req EXCEPT !.start_age = Some(i + 5), !.end_age = Some(i + 5)]]
    \o <<[req EXCEPT !.start_age = Some(30), !.end_age = None]>>

DivideByZone(req) == [i \in 1..Len(ZONES) |-> [req EXCEPT !.zone = ZONES[i]]]

\* Mutant: the stroke rule is tried before the course rule.
divide_stroke_first(req, by_course, by_stroke, by_distance, by_date, by_age, by_zone) ==
    IF by_stroke /\ req.stroke = "All" THEN DivideByStroke(req)
    ELSE IF by_course /\ req.course = "All" THEN DivideByCourse(req)
    ELSE IF by_distance /\ req.distance = 0 THEN DivideByDistance(req)
    ELSE IF by_date /\ req.from_date # req.to_date THEN DivideByDate(req)
    ELSE IF by_age /\ req.start_age = Some(0) /\ req.end_age = None THEN DivideByAge(req)
    ELSE IF by_zone /\ req.zone = "All" THEN DivideByZone(req)
    ELSE <<>>

\* fn divide: the first applicable rule returns.
divide(req, by_course, by_stroke, by_distance, by_date, by_age, by_zone) ==
    IF by_course /\ req.course = "All" THEN DivideByCourse(req)
    ELSE IF by_stroke /\ req.stroke = "All" THEN DivideByStroke(req)
    ELSE IF by_distance /\ req.distance = 0 THEN DivideByDistance(req)
    ELSE IF by_date /\ req.from_date # req.to_date THEN DivideByDate(req)
    ELSE IF by_age /\ req.start_age = Some(0) /\ req.end_age = None THEN DivideByAge(req)
    ELSE IF by_zone /\ req.zone = "All" THEN DivideByZone(req)
    ELSE <<>>

----------------------------------------------------------------------------
(* Request store (swimrs-cli/src/db.rs): the table `requests` is a set of    *)
(* rows; NULL is None.                                                      *)

Row(id, state, num_results, error, duration) ==
    [id |-> id, state |-> state, num_results |-> num_results, error |-> error,
     duration |-> duration]

\* Mutant: the query compares the state with a word no row carries.
check_request_success_other_word(tbl, req_id) ==
    LET op == {r \in tbl : r.id = req_id /\ r.state = "succeeded"}
    IN op # {}

\* Mutant: the query forgets the state: WHERE id = ?.
check_request_success_any_state(tbl, req_id) ==
    LET op == {r \in tbl : r.id = req_id}
    IN op # {}

\* SELECT 1 FROM requests WHERE id = ? AND state = 'success'; fetch_optional.
check_request_success(tbl, req_id) ==
    LET op == {r \in tbl : r.id = req_id /\ r.state = "success"}
    IN op # {}

\* Mutant: INSERT OR IGNORE instead of REPLACE.
upsert_request_success_ignore(tbl, req_id, num_results, duration) ==
    IF \E r \in tbl : r.id = req_id
    THEN tbl
    ELSE tbl \cup {Row(req_id, "success", Some(num_results), None, duration)}

\* REPLACE INTO: rows that conflict on the primary key are deleted, then the
\* new row is inserted.
upsert_request_success(tbl, req_id, num_results, duration) ==
    {r \in tbl : r.id # req_id}
    \cup {Row(req_id, "success", Some(num_results), None, duration)}

\* Mutant: REPLACE instead of INSERT OR IGNORE.
upsert_request_error_replace(tbl, req_id, error_text, duration) ==
    {r \in tbl : r.id # req_id}
    \cup {Row(req_id, "error", None, Some(error_text), duration)}

\* Mutant: the table has no primary key, so nothing conflicts.
upsert_request_error_no_key(tbl, req_id, error_text, duration) ==
    tbl \cup {Row(req_id, "error", None, Some(error_text), duration)}

\* Mutant: an older error row is overwritten, a success row is kept.
upsert_request_error_latest(tbl, req_id, error_text, duration) ==
    IF \E r \in tbl : r.id = req_id /\ r.state = "success"
    THEN tbl
    ELSE {r \in tbl : r.id # req_id}
         \cup {Row(req_id, "error", None, Some(error_text), duration)}

\* INSERT OR IGNORE: the row is skipped when it conflicts on the primary key.
upsert_request_error(tbl, req_id, error_text, duration) ==
    IF \E r \in tbl : r.id = req_id
    THEN tbl
    ELSE tbl \cup {Row(req_id, "error", None, Some(error_text), duration)}

----------------------------------------------------------------------------
(* Producer and workers (swimrs-cli/src/mirror.rs) *)

Clients == 0..(NumClients - 1)

age_range ==
    << <<Some(0), Some(7)>>, <<Some(8), Some(8)>>, <<Some(9), Some(9)>>,
       <<Some(10), Some(10)>>, <<Some(11), Some(11)>>, <<Some(12), Some(12)>>,
       <<Some(13), Some(13)>>, <<Some(14), Some(14)>>, <<Some(15), Some(15)>>,
       <<Some(16), Some(16)>>, <<Some(17), Some(17)>>, <<Some(18), Some(18)>>,
       <<Some(19), Some(19)>>, <<Some(20), Some(20)>>, <<Some(21), Some(21)>>,
       <<Some(22), Some(22)>>, <<Some(23), None>> >>

\* The rows of age_range the model's producer iterates over.
SeedAges == <<age_range[1]>>

\* let num_days = (to_date - from_date).num_days() as usize + 1. The cast
\* of a negative i64 wraps: -1 becomes usize::MAX, and the addition then
\* panics (overflow checks) or wraps to 0, nothing being sent either way;
\* -k for k >= 2 becomes 2^64 - k + 1, more than the calendar has days, and
\* is given here as the largest number at hand.
num_days(from, to) ==
    IF to >= from THEN (to - from) + 1
    ELSE IF to = from - 1 THEN 0
    ELSE 2147483647

\* The number of days from_date.iter_days().take(n) yields: iter_days ends
\* at the last day of the calendar (NaiveDate::MAX, here LastDay).
iter_days_take(from, n) ==
    IF n < (LastDay - from) + 1 THEN n ELSE (LastDay - from) + 1

\* The k-th request produce_requests sends: days outermost, then the age
\* buckets, then male before female.
SeedRequest(from, to, k) ==
    LET perDay == 2 * Len(SeedAges)
        d == from + ((k - 1) \div perDay)
        a == SeedAges[(((k - 1) % perDay) \div 2) + 1]
    IN [TopTimesRequestDefault(from) EXCEPT
            !.gender = IF (k - 1) % 2 = 0 THEN "Male" ELSE "Female",
            !.from_date = d, !.to_date = d,
            !.start_age = a[1], !.end_age = a[2]]

NumSeedRequests(from, to) ==
    iter_days_take(from, num_days(from, to)) * 2 * Len(SeedAges)

SeedRequestSet == {SeedRequest(from_date, to_date, k) : k \in 1..NumSeedRequests(from_date, to_date)}

NoReq == <<>>
NoRes == [ok |-> TRUE, n |-> 0, err |-> ""]
Ok(n) == [ok |-> TRUE, n |-> n, err |-> ""]
Err(e) == [ok |-> FALSE, n |-> 0, err |-> e]

\* The numbers of times a response can hold for a request.
ResultCounts(req) == {0, 1, req.max_results}

\* Mutant: a request is counted as sent and not put into the queue.
produce_requests_skip ==
    /\ sent < NumSeedRequests(from_date, to_date)
    /\ queue' = IF sent = 0 THEN queue
                ELSE Append(queue, SeedRequest(from_date, to_date, sent + 1))
    /\ sent' = sent + 1
    /\ UNCHANGED <<from_date, to_date, cookies, pc, cur, res, requests, results, nfail, run,
                   calls, before, otherVars>>

\* One req_tx.send of produce_requests.
produce_requests ==
    /\ sent < NumSeedRequests(from_date, to_date)
    /\ queue' = Append(queue, SeedRequest(from_date, to_date, sent + 1))
    /\ sent' = sent + 1
    /\ UNCHANGED <<from_date, to_date, cookies, pc, cur, res, requests, results, nfail, run,
                   calls, before, otherVars>>

\* Mutant: a worker whose warm-up failed enters the loop all the same.
populate_cookies_unchecked(w) ==
    /\ pc[w] = "warmup"
    /\ \E ok \in BOOLEAN :
          /\ pc' = [pc EXCEPT ![w] = "recv"]
          /\ cookies' = IF ok THEN cookies \cup {w} ELSE cookies
    /\ UNCHANGED <<from_date, to_date, sent, queue, cur, res, requests, results,
                   nfail, run, calls, before, otherVars>>

\* Mutant: a failed warm-up stops every worker.
populate_cookies_fatal(w) ==
    /\ pc[w] = "warmup"
    /\ \E ok \in BOOLEAN :
          /\ pc' = IF ok THEN [pc EXCEPT ![w] = "recv"] ELSE [v \in Clients |-> "exited"]
          /\ cookies' = IF ok THEN cookies \cup {w} ELSE cookies
    /\ UNCHANGED <<from_date, to_date, sent, queue, cur, res, requests, results,
                   nfail, run, calls, before, otherVars>>

\* client.populate_cookies().await? : the GET fills the client's cookie
\* store; on error the task returns.
populate_cookies(w) ==
    /\ pc[w] = "warmup"
    /\ \E ok \in BOOLEAN :
          /\ pc' = [pc EXCEPT ![w] = IF ok THEN "recv" ELSE "exited"]
          /\ cookies' = IF ok THEN cookies \cup {w} ELSE cookies
    /\ UNCHANGED <<from_date, to_date, sent, queue, cur, res, requests, results,
                   nfail, run, calls, before, otherVars>>

\* Mutant: the received request stays in the queue.
recv_peek(w) ==
    /\ pc[w] = "recv"
    /\ queue # <<>>
    /\ cur' = [cur EXCEPT ![w] = Head(queue)]
    /\ queue' = queue
    /\ pc' = [pc EXCEPT ![w] = "check"]
    /\ UNCHANGED <<from_date, to_date, cookies, sent, res, requests, results, nfail, run,
                   calls, before, otherVars>>

\* req_rx.recv().await
recv(w) ==
    /\ pc[w] = "recv"
    /\ queue # <<>>
    /\ cur' = [cur EXCEPT ![w] = Head(queue)]
    /\ queue' = Tail(queue)
    /\ pc' = [pc EXCEPT ![w] = "check"]
    /\ UNCHANGED <<from_date, to_date, cookies, sent, res, requests, results, nfail, run,
                   calls, before, otherVars>>

\* Mutant: an already made request is sent back into the queue.
check_resend(w) ==
    /\ pc[w] = "check"
    /\ IF check_request_success(requests, ReqId(cur[w]))
       THEN /\ pc' = [pc EXCEPT ![w] = "recv"]
            /\ queue' = Append(queue, cur[w])
            /\ cur' = [cur EXCEPT ![w] = NoReq]
       ELSE /\ pc' = [pc EXCEPT ![w] = "fetch"]
            /\ cur' = cur
            /\ queue' = queue
    /\ UNCHANGED <<from_date, to_date, cookies, sent, res, requests, results, nfail,
                   run, calls, before, otherVars>>

\* if db.check_request_success(req_id) { continue; } else the request is
\* handed to process_request.
check(w) ==
    /\ pc[w] = "check"
    /\ IF check_request_success(requests, ReqId(cur[w]))
       THEN /\ pc' = [pc EXCEPT ![w] = "recv"]
            /\ cur' = [cur EXCEPT ![w] = NoReq]
       ELSE /\ pc' = [pc EXCEPT ![w] = "fetch"]
            /\ cur' = cur
    /\ UNCHANGED <<from_date, to_date, cookies, sent, queue, res, requests, results, nfail,
                   run, calls, before, otherVars>>

\* results/<id>/results.csv with `n` rows replaces an older file of that id.
WriteFile(files, id, n) == {f \in files : f[1] # id} \cup {<<id, n>>}

\* async fn process_request, from the call of client.fetch_html to its
\* return: fetch_html, parse_top_times (with the early return Ok(0) when no
\* times were found) and the result file. Each `?` can return the error;
\* create_dir_all, csv::Writer::from_path, serialize and flush can fail before
\* the file exists or after it was truncated.
process_request(w) ==
    /\ pc[w] = "fetch"
    /\ \/ \E l \in ResultCounts(cur[w]) :
             /\ res' = [res EXCEPT ![w] = Ok(l)]
             /\ results' = IF l = 0 THEN results
                                    ELSE WriteFile(results, ReqId(cur[w]), l)
             /\ nfail' = nfail
       \/ /\ nfail < MaxFailures
          /\ nfail' = nfail + 1
          /\ \/ /\ res' = [res EXCEPT ![w] = Err("fetch")]
                /\ results' = results
             \/ /\ res' = [res EXCEPT ![w] = Err("parse")]
                /\ results' = results
             \/ /\ res' = [res EXCEPT ![w] = Err("write")]
                /\ results' \in {results, WriteFile(results, ReqId(cur[w]), 0)}
    /\ pc' = [pc EXCEPT ![w] = "record"]
    /\ UNCHANGED <<from_date, to_date, cookies, sent, queue, cur, requests, run, calls, before, otherVars>>

\* Mutant: the error arm does not send the request back.
record_drop(w) ==
    /\ pc[w] = "record"
    /\ requests' = IF res[w].ok
                   THEN upsert_request_success(requests, ReqId(cur[w]), res[w].n, 0)
                   ELSE upsert_request_error(requests, ReqId(cur[w]), res[w].err, 0)
    /\ pc' = [pc EXCEPT ![w] = "recv"]
    /\ cur' = [cur EXCEPT ![w] = NoReq]
    /\ res' = [res EXCEPT ![w] = NoRes]
    /\ UNCHANGED <<from_date, to_date, cookies, sent, queue, results, nfail, run, calls, before, otherVars>>

\* match process_request(..) { Ok(l) => upsert_request_success,
\* Err(e) => upsert_request_error and req_tx.send(req2) }, then the pacing
\* sleep and the next iteration of the loop.
record(w) ==
    /\ pc[w] = "record"
    /\ IF res[w].ok
       THEN /\ requests' = upsert_request_success(requests, ReqId(cur[w]), res[w].n, 0)
            /\ queue' = queue
       ELSE /\ requests' = upsert_request_error(requests, ReqId(cur[w]), res[w].err, 0)
            /\ queue' = Append(queue, cur[w])
    /\ pc' = [pc EXCEPT ![w] = "recv"]
    /\ cur' = [cur EXCEPT ![w] = NoReq]
    /\ res' = [res EXCEPT ![w] = NoRes]
    /\ UNCHANGED <<from_date, to_date, cookies, sent, results, nfail, run, calls, before, otherVars>>

process_requests(w) ==
    \/ populate_cookies(w)
    \/ recv(w)
    \/ check(w)
    \/ process_request(w)
    \/ record(w)

\* The process is killed and start_mirror runs again with the same window:
\* the channel and the tasks are new, the sqlite file and results/ are kept.
Restart ==
    /\ run < MaxRestarts
    /\ run' = run + 1
    /\ sent' = 0
    /\ queue' = <<>>
    /\ pc' = [w \in Clients |-> "warmup"]
    /\ cur' = [w \in Clients |-> NoReq]
    /\ res' = [w \in Clients |-> NoRes]
    /\ cookies' = {}
    /\ UNCHANGED <<from_date, to_date, requests, results, nfail, calls, before, otherVars>>

\* start_mirror(from_date, to_date, num_clients, db_url) on a new database.
InitPipeline ==
    /\ from_date = 0
    /\ to_date = from_date
    /\ sent = 0
    /\ queue = <<>>
    /\ pc = [w \in Clients |-> "warmup"]
    /\ cur = [w \in Clients |-> NoReq]
    /\ res = [w \in Clients |-> NoRes]
    /\ requests = {}
    /\ results = {}
    /\ nfail = 0
    /\ run = 0
    /\ cookies = {}

\* No call was made on the store yet.
InitStore ==
    /\ calls = <<>>
    /\ before = {}

\* atomize is not running.
NoAtomize ==
    /\ root_req = NoReq
    /\ by = <<>>
    /\ atomize_queue = <<>>
    /\ output = <<>>
    /\ divided = <<>>
    /\ pops = 0

\* No request is being formatted.
NoIdentity ==
    /\ pair = <<>>
    /\ ids = <<>>

\* The legacy mirror is not running.
NoLegacy ==
    /\ glob_set = {}
    /\ unsent = {}
    /\ warnings = {}

\* No request is on the wire, the gauge was never incremented and the remote
\* refuses no id.
NoTasks ==
    /\ http = [w \in Clients |-> "idle"]
    /\ active_count = 0
    /\ doomed = {}

\* No loop iteration is timed.
NoPace == pace = <<>>

\* gen_requests_smart is not running.
NoSmart ==
    /\ window = <<>>
    /\ generated = <<>>

\* No client was built.
NoTransport ==
    /\ proxies = <<>>
    /\ wire = {}

NoHarness == NoTasks /\ NoPace /\ NoSmart /\ NoTransport

Init == InitPipeline /\ InitStore /\ NoAtomize /\ NoIdentity /\ NoLegacy /\ NoHarness

Next ==
    \/ produce_requests
    \/ \E w \in Clients : process_requests(w)
    \/ Restart

Spec == Init /\ [][Next]_vars

----------------------------------------------------------------------------
(* Store harness: callers apply the three operations of SqliteRequestDb to   *)
(* one table in any order; sqlite runs the statements one at a time.        *)

DbIds == {ReqId(SeedRequest(0, 0, k)) : k \in 1..2}
ErrorTexts == {"fetch", "parse", "write"}

Call(op, id, n, err, result) == [op |-> op, id |-> id, n |-> n, err |-> err, result |-> result]

call_check_request_success(id) ==
    /\ Len(calls) < MaxDbCalls
    /\ calls' = Append(calls, Call("check", id, 0, "", check_request_success(requests, id)))
    /\ before' = requests
    /\ UNCHANGED <<from_date, to_date, cookies, sent, queue, pc, cur, res, requests, results,
                   nfail, run, otherVars>>

call_upsert_request_success(id, n) ==
    /\ Len(calls) < MaxDbCalls
    /\ requests' = upsert_request_success(requests, id, n, 0)
    /\ calls' = Append(calls, Call("success", id, n, "", TRUE))
    /\ before' = requests
    /\ UNCHANGED <<from_date, to_date, cookies, sent, queue, pc, cur, res, results, nfail, run, otherVars>>

call_upsert_request_error(id, e) ==
    /\ Len(calls) < MaxDbCalls
    /\ requests' = upsert_request_error(requests, id, e, 0)
    /\ calls' = Append(calls, Call("error", id, 0, e, TRUE))
    /\ before' = requests
    /\ UNCHANGED <<from_date, to_date, cookies, sent, queue, pc, cur, res, results, nfail, run, otherVars>>

NextDb ==
    \/ \E id \in DbIds : call_check_request_success(id)
    \/ \E id \in DbIds, n \in 0..MaxCount : call_upsert_request_success(id, n)
    \/ \E id \in DbIds, e \in ErrorTexts : call_upsert_request_error(id, e)

\* ensure_schema on a new database: the table is empty.
SpecDb == Init /\ [][NextDb]_vars

----------------------------------------------------------------------------
(* Partitioner harness (src/usas/mirror.rs): atomize run on bounded inputs. *)

\* impl Default for TopTimesRequest of src/usas/toptimes.rs; `today` stands
\* for Local::now(), a day number.
LegacyTopTimesRequestDefault(today) ==
    [gender |-> "Mixed", distance |-> 0, stroke |-> "All", course |-> "All",
     from_date |-> today - 7, to_date |-> today,
     start_age |-> None, end_age |-> None, zone |-> "All", lscs |-> <<"All">>,
     time_type |-> "Individual", members_only |-> FALSE, best_only |-> FALSE,
     max_results |-> 5000]

\* The arguments by_course .. by_zone of atomize and divide.
Flags(by_course, by_stroke, by_distance, by_date, by_age, by_zone) ==
    [course |-> by_course, stroke |-> by_stroke, distance |-> by_distance,
     date |-> by_date, age |-> by_age, zone |-> by_zone]

\* The flag combinations atomize is run with: the one of mirror's call, all
\* rules, and one that skips the course, distance and age rules.
FlagSets ==
    { Flags(TRUE, TRUE, TRUE, TRUE, TRUE, FALSE),
      Flags(TRUE, TRUE, TRUE, TRUE, TRUE, TRUE),
      Flags(FALSE, TRUE, FALSE, TRUE, FALSE, TRUE) }

InputCourses == {"All", "SCY", "LCM"}
InputStrokes == {"All", "Freestyle", "IndividualMedley", "FreestyleRelay"}
InputDistances == {0, 50}
InputAges == { <<None, None>>, <<Some(0), None>>, <<Some(0), Some(7)>>, <<Some(8), Some(8)>> }
InputZones == {"All", "Central"}

\* The requests atomize is run on: from_date is day 0 and to_date lies at
\* most MaxSpan days before or after it.
AtomizeInputs ==
    { [LegacyTopTimesRequestDefault(0) EXCEPT
          !.gender = "Male", !.course = c, !.stroke = s, !.distance = d,
          !.from_date = 0, !.to_date = t,
          !.start_age = a[1], !.end_age = a[2], !.zone = z] :
      c \in InputCourses, s \in InputStrokes, d \in InputDistances,
      t \in (-MaxSpan)..MaxSpan, a \in InputAges, z \in InputZones }

\* let mut output = Vec::new(); let mut queue = VecDeque::new();
\* queue.push_back(req);
InitAtomize ==
    /\ root_req \in AtomizeInputs
    /\ by \in FlagSets
    /\ atomize_queue = <<root_req>>
    /\ output = <<>>
    /\ divided = <<>>
    /\ pops = 0
    /\ InitPipeline /\ InitStore /\ NoIdentity /\ NoLegacy /\ NoHarness

\* One iteration of `while let Some(r) = queue.pop_front()`: divide(r, ..);
\* an empty result makes r a leaf of the output, any other result is appended
\* to the queue.
atomize ==
    /\ atomize_queue # <<>>
    /\ pops < MaxPops
    /\ LET r == Head(atomize_queue)
           d == divide(r, by.course, by.stroke, by.distance, by.date, by.age, by.zone)
       IN /\ divided' = [r |-> r, children |-> d]
          /\ IF Len(d) = 0
             THEN /\ output' = Append(output, r)
                  /\ atomize_queue' = Tail(atomize_queue)
             ELSE /\ output' = output
                  /\ atomize_queue' = Tail(atomize_queue) \o d
    /\ pops' = pops + 1
    /\ UNCHANGED <<root_req, by, pipelineVars, storeVars, harnessVars, identityVars, legacyVars>>

NextAtomize == atomize

SpecAtomize == InitAtomize /\ [][NextAtomize]_vars

----------------------------------------------------------------------------
(* Identity harness: the two Display impls applied to pairs of requests.    *)

\* Debug of the legacy enums is the variant name.
DebugEnum(v) == Text(v)

\* impl Display for TopTimesRequest of src/usas/toptimes.rs: the fields in the
\* order of the format string "{:?}/{:?}/{:?}/{}/{}_{}/{}_{}/{:?}".
legacy_to_string(req) ==
    << DebugEnum(req.gender), DebugEnum(req.course), DebugEnum(req.stroke),
       Decimal(req.distance), Decimal(req.from_date), Decimal(req.to_date),
       DisplayAge(req.start_age), DisplayAge(req.end_age), DebugEnum(req.zone) >>

\* The values a field takes in the formatted requests, next to its default.
FieldValues ==
    [gender |-> {"Male", "Female"}, course |-> {"SCY", "LCM"},
     stroke |-> {"Freestyle", "FreestyleRelay"}, distance |-> {50, 1650},
     from_date |-> {1, 2}, to_date |-> {1, 2},
     start_age |-> {Some(0), Some(7)}, end_age |-> {Some(0), Some(7)},
     zone |-> {"Central", "Western"}, members_only |-> {TRUE},
     best_only |-> {TRUE}, max_results |-> {100, 4999}]

\* A request and the requests that differ from it in one field.
Variants(req) ==
    {req} \cup {[req EXCEPT ![f] = v] : <<f, v>> \in
                   UNION {{<<g, w>> : w \in FieldValues[g]} : g \in DOMAIN FieldValues}}

\* Two requests that each differ from the default in at most one field, with
\* the crate whose Display formats them.
InitIdentity ==
    /\ \/ \E a \in Variants(TopTimesRequestDefault(0)),
             b \in Variants(TopTimesRequestDefault(0)) : pair = <<"swimrs", a, b>>
       \/ \E a \in Variants(LegacyTopTimesRequestDefault(0)),
             b \in Variants(LegacyTopTimesRequestDefault(0)) : pair = <<"legacy", a, b>>
    /\ ids = <<>>
    /\ InitPipeline /\ InitStore /\ NoAtomize /\ NoLegacy /\ NoHarness

\* swimrs-cli: req.to_string().to_lowercase() of both requests.
req_id ==
    /\ ids = <<>>
    /\ pair[1] = "swimrs"
    /\ ids' = <<ReqId(pair[2]), ReqId(pair[3])>>
    /\ UNCHANGED <<pair, pipelineVars, storeVars, harnessVars, atomizeVars, legacyVars>>

\* Legacy mirror: format!("results/{}/", req) and r.to_string() of both
\* requests.
legacy_req_id ==
    /\ ids = <<>>
    /\ pair[1] = "legacy"
    /\ ids' = <<legacy_to_string(pair[2]), legacy_to_string(pair[3])>>
    /\ UNCHANGED <<pair, pipelineVars, storeVars, harnessVars, atomizeVars, legacyVars>>

NextIdentity == req_id \/ legacy_req_id

SpecIdentity == InitIdentity /\ [][NextIdentity]_vars

----------------------------------------------------------------------------
(* Legacy mirror (src/usas/mirror.rs): the skip set is built from the       *)
(* result.csv files found at start; a file of `results` is a record with the *)
(* id, the rows written so far and the number of times the search found.    *)

\* gen_requests_smart's age_range; 51 stands for no upper end.
smart_age_range ==
    << <<0, 7>>, <<8, 8>>, <<9, 9>>, <<10, 10>>, <<11, 11>>, <<12, 12>>, <<13, 13>>,
       <<14, 14>>, <<15, 15>>, <<16, 16>>, <<17, 17>>, <<18, 18>>, <<19, 19>>,
       <<20, 20>>, <<21, 21>>, <<22, 22>>, <<23, 23>>, <<24, 24>>, <<25, 51>> >>

\* The strokes and distances gen_requests_smart pushes for one day and one
\* age row, in the order of the pushes.
smart_events ==
    << <<"Freestyle", 50>>, <<"Freestyle", 100>>, <<"Freestyle", 200>>,
       <<"Backstroke", 50>>, <<"Backstroke", 100>>, <<"Backstroke", 200>>,
       <<"Breaststroke", 0>>, <<"Butterfly", 0>>, <<"IndividualMedley", 0>> >>

\* fn gen_requests_smart: days outermost, then the age rows, then the events.
gen_requests_smart(from, to) ==
    LET perDay == Len(smart_age_range) * Len(smart_events)
    IN [k \in 1..(iter_days_take(from, num_days(from, to)) * perDay) |->
          LET d == from + ((k - 1) \div perDay)
              a == smart_age_range[(((k - 1) % perDay) \div Len(smart_events)) + 1]
              e == smart_events[((k - 1) % Len(smart_events)) + 1]
          IN [LegacyTopTimesRequestDefault(from) EXCEPT
                 !.gender = "Male", !.from_date = d, !.to_date = d,
                 !.start_age = Some(a[1]),
                 !.end_age = IF a[2] = 51 THEN None ELSE Some(a[2]),
                 !.max_results = 5000,
                 !.stroke = e[1], !.distance = e[2]]]

\* gen_requests_smart is called with a window of one to MaxDays days.
InitSmart ==
    /\ window \in {<<0, t>> : t \in 0..(MaxDays - 1)}
    /\ generated = <<>>
    /\ InitPipeline /\ InitStore /\ NoAtomize /\ NoIdentity /\ NoLegacy
    /\ NoTasks /\ NoPace /\ NoTransport

\* One requests.push(..) of gen_requests_smart.
push ==
    /\ Len(generated) < Len(gen_requests_smart(window[1], window[2]))
    /\ generated' = Append(generated,
                           gen_requests_smart(window[1], window[2])[Len(generated) + 1])
    /\ UNCHANGED <<window, pipelineVars, storeVars, atomizeVars, identityVars,
                   legacyVars, taskVars, paceVars, transportVars>>

NextSmart == push

SpecSmart == InitSmart /\ [][NextSmart]_vars

\* The requests the model's mirror sends: the first two of the window's first
\* day (day 0).
LegacyRequests == {gen_requests_smart(0, 0)[k] : k \in 1..2}

File(id, rows, found) == [id |-> id, rows |-> rows, found |-> found]

\* csv::Writer::from_path creates or truncates results/<id>/result.csv.
CreateFile(files, id, found) == {f \in files : f.id # id} \cup {File(id, 0, found)}

\* The for loop over `times` and wtr.flush() leave every row in the file.
FlushFile(files, id, found) == {f \in files : f.id # id} \cup {File(id, found, found)}

\* glob("**/result.csv") with "results/" and "/result.csv" stripped.
GlobResults(files) == {f.id : f \in files}

\* mirror(concurrency, dry_run = false) in an empty working directory.
InitLegacy ==
    /\ glob_set = GlobResults({})
    /\ unsent = LegacyRequests
    /\ warnings = {}
    /\ InitPipeline /\ InitStore /\ NoAtomize /\ NoIdentity /\ NoHarness

\* One iteration of `for r in requests`, the Vec being shuffled:
\* if !set.contains(r.to_string()) { tx.send(r) }.
legacy_send ==
    /\ \E r \in unsent :
          /\ unsent' = unsent \ {r}
          /\ queue' = IF legacy_to_string(r) \in glob_set THEN queue ELSE Append(queue, r)
    /\ UNCHANGED <<from_date, to_date, cookies, sent, pc, cur, res, requests, results, nfail, run,
                   glob_set, warnings, storeVars, harnessVars, atomizeVars, identityVars>>

\* client.populate_cookies().await.unwrap(): on error the task panics.
legacy_populate_cookies(w) ==
    /\ pc[w] = "warmup"
    /\ \E ok \in BOOLEAN :
          /\ pc' = [pc EXCEPT ![w] = IF ok THEN "recv" ELSE "exited"]
          /\ cookies' = IF ok THEN cookies \cup {w} ELSE cookies
    /\ UNCHANGED <<from_date, to_date, sent, queue, cur, res, requests, results, nfail,
                   run, legacyVars, storeVars, harnessVars, atomizeVars, identityVars>>

\* Ok(r) = rx2.recv() and the start of make_request up to client.search.
legacy_recv(w) ==
    /\ pc[w] = "recv"
    /\ queue # <<>>
    /\ cur' = [cur EXCEPT ![w] = Head(queue)]
    /\ queue' = Tail(queue)
    /\ pc' = [pc EXCEPT ![w] = "search"]
    /\ UNCHANGED <<from_date, to_date, cookies, sent, res, requests, results, nfail, run,
                   legacyVars, storeVars, harnessVars, atomizeVars, identityVars>>

\* let result = client.search(req).await; the Err arm sends req2 back.
search(w) ==
    /\ pc[w] = "search"
    /\ \/ /\ \E n \in ResultCounts(cur[w]) : res' = [res EXCEPT ![w] = Ok(n)]
          /\ pc' = [pc EXCEPT ![w] = "create"]
          /\ UNCHANGED <<queue, cur, nfail>>
       \/ /\ nfail < MaxFailures
          /\ nfail' = nfail + 1
          /\ queue' = Append(queue, cur[w])
          /\ pc' = [pc EXCEPT ![w] = "recv"]
          /\ cur' = [cur EXCEPT ![w] = NoReq]
          /\ res' = res
    /\ UNCHANGED <<from_date, to_date, cookies, sent, requests, results, run,
                   legacyVars, storeVars, harnessVars, atomizeVars, identityVars>>

\* The Ok arm up to csv::Writer::from_path: warning.txt when at least 4900
\* times were found, then result.csv is created; each unwrap can panic.
create(w) ==
    /\ pc[w] = "create"
    /\ LET id == legacy_to_string(cur[w])
           warned == IF res[w].n >= 4900 THEN warnings \cup {id} ELSE warnings
       IN \/ /\ warnings' = warned
             /\ results' = CreateFile(results, id, res[w].n)
             /\ pc' = [pc EXCEPT ![w] = "flush"]
             /\ nfail' = nfail
          \/ /\ nfail < MaxFailures
             /\ nfail' = nfail + 1
             /\ warnings' \in {warnings, warned}
             /\ results' = results
             /\ pc' = [pc EXCEPT ![w] = "exited"]
    /\ UNCHANGED <<from_date, to_date, cookies, sent, queue, cur, res, requests, run,
                   glob_set, unsent, storeVars, harnessVars, atomizeVars, identityVars>>

\* for t in times { wtr.serialize(t).unwrap() } wtr.flush().unwrap(), then
\* the next iteration of the task's loop; each unwrap can panic.
flush(w) ==
    /\ pc[w] = "flush"
    /\ \/ /\ results' = FlushFile(results, legacy_to_string(cur[w]), res[w].n)
          /\ pc' = [pc EXCEPT ![w] = "recv"]
          /\ cur' = [cur EXCEPT ![w] = NoReq]
          /\ res' = [res EXCEPT ![w] = NoRes]
          /\ nfail' = nfail
       \/ /\ nfail < MaxFailures
          /\ nfail' = nfail + 1
          /\ pc' = [pc EXCEPT ![w] = "exited"]
          /\ UNCHANGED <<results, cur, res>>
    /\ UNCHANGED <<from_date, to_date, cookies, sent, queue, requests, run,
                   legacyVars, storeVars, harnessVars, atomizeVars, identityVars>>

\* The process is killed and mirror runs again in the same directory: the
\* channel and the tasks are new, the files are kept and globbed.
LegacyRestart ==
    /\ run < MaxRestarts
    /\ run' = run + 1
    /\ glob_set' = GlobResults(results)
    /\ unsent' = LegacyRequests
    /\ queue' = <<>>
    /\ pc' = [w \in Clients |-> "warmup"]
    /\ cur' = [w \in Clients |-> NoReq]
    /\ res' = [w \in Clients |-> NoRes]
    /\ cookies' = {}
    /\ UNCHANGED <<from_date, to_date, sent, requests, results, nfail, warnings,
                   storeVars, harnessVars, atomizeVars, identityVars>>

NextLegacy ==
    \/ legacy_send
    \/ \E w \in Clients :
          \/ legacy_populate_cookies(w)
          \/ legacy_recv(w)
          \/ search(w)
          \/ create(w)
          \/ flush(w)
    \/ LegacyRestart

SpecLegacy == InitLegacy /\ [][NextLegacy]_vars

----------------------------------------------------------------------------
(* The worker task of swimrs-cli step by step: the request on the wire, the *)
(* gauge around parse_top_times, the result file and the store calls that   *)
(* are unwrapped. The process is not restarted here.                        *)

\* Workers that entered the loop and neither returned nor panicked.
Live(w) == pc[w] \notin {"warmup", "exited", "panicked"}

InitTasks ==
    /\ InitPipeline /\ InitStore /\ NoAtomize /\ NoIdentity /\ NoLegacy
    /\ NoPace /\ NoSmart /\ NoTransport
    /\ http = [w \in Clients |-> "idle"]
    /\ active_count = 0
    /\ doomed \in {{}, {ReqId(SeedRequest(from_date, to_date, 1))}}

\* Mutant: a store call that failed is passed over, the worker goes on as
\* if the call had returned.
unwrap_ignored(w) ==
    /\ pc[w] \in {"check", "record"}
    /\ nfail < MaxFailures
    /\ nfail' = nfail + 1
    /\ IF pc[w] = "check"
       THEN /\ pc' = [pc EXCEPT ![w] = "fetch"]
            /\ UNCHANGED <<cur, res, queue>>
       ELSE /\ pc' = [pc EXCEPT ![w] = "recv"]
            /\ cur' = [cur EXCEPT ![w] = NoReq]
            /\ res' = [res EXCEPT ![w] = NoRes]
            /\ queue' = IF res[w].ok THEN queue ELSE Append(queue, cur[w])
    /\ UNCHANGED <<from_date, to_date, sent, requests, results, run, cookies,
                   calls, before, otherVars>>

\* db.check_request_success(..).await.unwrap(),
\* db.upsert_request_success(..).await.unwrap() and
\* db.upsert_request_error(..).await.unwrap() when the call returns Err:
\* the task panics where it is.
unwrap(w) ==
    /\ pc[w] \in {"check", "record"}
    /\ nfail < MaxFailures
    /\ nfail' = nfail + 1
    /\ pc' = [pc EXCEPT ![w] = "panicked"]
    /\ UNCHANGED <<from_date, to_date, sent, queue, cur, res, requests, results, run,
                   cookies, calls, before, otherVars>>

\* fetch_html up to .send(): the form is posted. The remote answers it or
\* never does; the client has no timeout.
fetch_html(w) ==
    /\ pc[w] = "fetch"
    /\ pc' = [pc EXCEPT ![w] = "await"]
    /\ \/ /\ http' = [http EXCEPT ![w] = "answer"]
          /\ nfail' = nfail
       \/ /\ nfail < MaxFailures
          /\ nfail' = nfail + 1
          /\ http' = [http EXCEPT ![w] = "silent"]
    /\ UNCHANGED <<from_date, to_date, sent, queue, cur, res, requests, results, run,
                   cookies, calls, before, active_count, doomed,
                   atomizeVars, identityVars, legacyVars, paceVars, smartVars,
                   transportVars>>

\* Mutant: a request the remote does not answer ends with an error.
response_timeout(w) ==
    /\ pc[w] = "await"
    /\ http' = [http EXCEPT ![w] = "idle"]
    /\ IF http[w] = "answer" /\ ReqId(cur[w]) \notin doomed
       THEN \/ /\ pc' = [pc EXCEPT ![w] = "parse"]
               /\ active_count' = active_count + 1
               /\ UNCHANGED <<res, nfail>>
            \/ /\ nfail < MaxFailures
               /\ nfail' = nfail + 1
               /\ res' = [res EXCEPT ![w] = Err("fetch")]
               /\ pc' = [pc EXCEPT ![w] = "record"]
               /\ active_count' = active_count
       ELSE /\ res' = [res EXCEPT ![w] = Err("fetch")]
            /\ pc' = [pc EXCEPT ![w] = "record"]
            /\ UNCHANGED <<active_count, nfail>>
    /\ UNCHANGED <<from_date, to_date, sent, queue, cur, requests, results, run,
                   cookies, calls, before, doomed,
                   atomizeVars, identityVars, legacyVars, paceVars, smartVars,
                   transportVars>>

\* The rest of fetch_html, .send().await?.error_for_status()?.text().await?,
\* when the remote answers, and increment_gauge!: Ok(html) increments the
\* gauge, an Err returns from process_request. The remote refuses a doomed id
\* every time.
response(w) ==
    /\ pc[w] = "await"
    /\ http[w] = "answer"
    /\ http' = [http EXCEPT ![w] = "idle"]
    /\ \/ /\ ReqId(cur[w]) \notin doomed
          /\ pc' = [pc EXCEPT ![w] = "parse"]
          /\ active_count' = active_count + 1
          /\ UNCHANGED <<res, nfail>>
       \/ /\ ReqId(cur[w]) \in doomed \/ nfail < MaxFailures
          /\ nfail' = IF ReqId(cur[w]) \in doomed THEN nfail ELSE nfail + 1
          /\ res' = [res EXCEPT ![w] = Err("fetch")]
          /\ pc' = [pc EXCEPT ![w] = "record"]
          /\ active_count' = active_count
    /\ UNCHANGED <<from_date, to_date, sent, queue, cur, requests, results, run,
                   cookies, calls, before, doomed,
                   atomizeVars, identityVars, legacyVars, paceVars, smartVars,
                   transportVars>>

\* Mutant: the gauge is decremented whatever the parser returned.
parse_top_times_guarded(w) ==
    /\ pc[w] = "parse"
    /\ active_count' = active_count - 1
    /\ \/ /\ \E l \in ResultCounts(cur[w]) :
                /\ res' = [res EXCEPT ![w] = Ok(l)]
                /\ pc' = [pc EXCEPT ![w] = IF l = 0 THEN "record" ELSE "write"]
          /\ nfail' = nfail
       \/ /\ nfail < MaxFailures
          /\ nfail' = nfail + 1
          /\ res' = [res EXCEPT ![w] = Err("parse")]
          /\ pc' = [pc EXCEPT ![w] = "record"]
    /\ UNCHANGED <<from_date, to_date, sent, queue, cur, requests, results, run,
                   cookies, calls, before, http, doomed,
                   atomizeVars, identityVars, legacyVars, paceVars, smartVars,
                   transportVars>>

\* task::spawn_blocking(parse_top_times).await??, decrement_gauge! and the
\* early return Ok(0) for an empty list: `??` returns a parse error or a
\* join error before the gauge is decremented.
parse_top_times(w) ==
    /\ pc[w] = "parse"
    /\ \/ /\ \E l \in ResultCounts(cur[w]) :
                /\ res' = [res EXCEPT ![w] = Ok(l)]
                /\ pc' = [pc EXCEPT ![w] = IF l = 0 THEN "record" ELSE "write"]
          /\ active_count' = active_count - 1
          /\ nfail' = nfail
       \/ /\ nfail < MaxFailures
          /\ nfail' = nfail + 1
          /\ res' = [res EXCEPT ![w] = Err("parse")]
          /\ pc' = [pc EXCEPT ![w] = "record"]
          /\ active_count' = active_count
    /\ UNCHANGED <<from_date, to_date, sent, queue, cur, requests, results, run,
                   cookies, calls, before, http, doomed,
                   atomizeVars, identityVars, legacyVars, paceVars, smartVars,
                   transportVars>>

\* create_dir_all, csv::Writer::from_path, the serialize loop and flush:
\* each `?` can return before the file exists or after it was truncated.
write_csv(w) ==
    /\ pc[w] = "write"
    /\ pc' = [pc EXCEPT ![w] = "record"]
    /\ \/ /\ results' = WriteFile(results, ReqId(cur[w]), res[w].n)
          /\ UNCHANGED <<res, nfail>>
       \/ /\ nfail < MaxFailures
          /\ nfail' = nfail + 1
          /\ res' = [res EXCEPT ![w] = Err("write")]
          /\ results' \in {results, WriteFile(results, ReqId(cur[w]), 0)}
    /\ UNCHANGED <<from_date, to_date, sent, queue, cur, requests, run,
                   cookies, calls, before, otherVars>>

\* One step of a worker task.
task(w) ==
    \/ populate_cookies(w)
    \/ recv(w)
    \/ check(w)
    \/ fetch_html(w)
    \/ response(w)
    \/ parse_top_times(w)
    \/ write_csv(w)
    \/ record(w)
    \/ unwrap(w)

NextTasks ==
    \/ produce_requests
    \/ \E w \in Clients : task(w)

SpecTasks == InitTasks /\ [][NextTasks]_vars

\* join_all(handles).await returned: the producer sent its last request and
\* every worker task ended; start_mirror returns Ok(()) and main exits.
Terminated ==
    /\ sent = NumSeedRequests(from_date, to_date)
    /\ \A w \in Clients : pc[w] \in {"exited", "panicked"}

----------------------------------------------------------------------------
(* Claims *)

RowsOf(tbl, id) == {r \in tbl : r.id = id}
HasSuccessRow(tbl, id) == \E r \in tbl : r.id = id /\ r.state = "success"
HasErrorRow(tbl, id) == \E r \in tbl : r.id = id /\ r.state = "error"
InQueue(q) == \E i \in 1..Len(queue) : queue[i] = q
InFlight(q) == \E w \in Clients : pc[w] \in {"check", "fetch", "record"} /\ cur[w] = q
LastCall == calls[Len(calls)]

\* The result count from which a response is presumed truncated: 0.98 of the
\* request's result cap.
SaturationThreshold(req) == (req.max_results * 98) \div 100

\* The facets the partitioner refines: all but the zone.
Children(req) == divide(req, TRUE, TRUE, TRUE, TRUE, TRUE, FALSE)

\* C1: a request whose response holds at least SaturationThreshold results
\* (e.g. 50000 of 50000) is never recorded as success in the table.
C1_SaturatedNeverSuccess ==
    \A q \in SeedRequestSet : \A r \in RowsOf(requests, ReqId(q)) :
        r.state = "success" => r.num_results[1] < SaturationThreshold(q)

\* C2: when a worker finishes a request whose response is saturated and that
\* divide can still split, it enqueues every child of the request and records
\* no success for it.
C2_SaturatedIsSplit ==
    [][\A w \in Clients :
          (/\ pc[w] = "record" /\ pc'[w] = "recv"
           /\ res[w].ok /\ res[w].n >= SaturationThreshold(cur[w])
           /\ Children(cur[w]) # <<>>)
          => /\ \A i \in 1..Len(Children(cur[w])) :
                    \E j \in 1..Len(queue') : queue'[j] = Children(cur[w])[i]
             /\ ~HasSuccessRow(requests', ReqId(cur[w]))]_vars

\* C3: while a worker has the source adapter running for a request, the table
\* holds no success row for that request's id: a request recorded as success
\* is never fetched again, in this run or after a restart.
C3_SuccessNeverRefetched ==
    \A w \in Clients : pc[w] = "fetch" => ~HasSuccessRow(requests, ReqId(cur[w]))

\* C3 witness: a worker has received a request that is already recorded as
\* success and is about to skip it.
C3_Witness ==
    \E w \in Clients : pc[w] = "check" /\ HasSuccessRow(requests, ReqId(cur[w]))

\* C4 as claimed: a request recorded as success is never in the queue again.
C4_SuccessNeverEnqueued ==
    \A i \in 1..Len(queue) : ~HasSuccessRow(requests, ReqId(queue[i]))

\* C4 amended: a request recorded as success may be put onto the queue again
\* by a new run's producer, but the worker that receives it drops it: it is
\* neither fetched nor sent back, and the table is not written.
C4_SuccessDroppedOnReceive ==
    [][\A w \in Clients :
          (/\ pc[w] = "check" /\ pc'[w] # "check" /\ run' = run
           /\ HasSuccessRow(requests, ReqId(cur[w])))
          => /\ pc'[w] = "recv" /\ cur'[w] = NoReq
             /\ queue' = queue /\ requests' = requests /\ results' = results]_vars

\* C4 witness: after a restart the producer has enqueued a request that is
\* recorded as success, and no worker has received it yet.
C4_Witness ==
    /\ run = 1
    /\ \E i \in 1..Len(queue) : HasSuccessRow(requests, ReqId(queue[i]))

\* C5: in a restarted run every request the producer has sent again is either
\* recorded as success, or still pending in the queue, or held by a worker:
\* a request with no row or with an error row is never dropped, and a request
\* with a success row is never in a worker's process_request.
C5_RestartResumes ==
    run >= 1 =>
        /\ \A k \in 1..sent :
              LET q == SeedRequest(from_date, to_date, k)
              IN HasSuccessRow(requests, ReqId(q)) \/ InQueue(q) \/ InFlight(q)
        /\ \A w \in Clients :
              pc[w] \in {"fetch", "record"} => ~HasSuccessRow(requests, ReqId(cur[w]))

\* C5 witness: in a restarted run a worker fetches a request whose only row is
\* an error row, after the producer has sent every request again.
C5_Witness ==
    /\ run = 1
    /\ sent = NumSeedRequests(from_date, to_date)
    /\ \E w \in Clients : pc[w] = "fetch" /\ HasErrorRow(requests, ReqId(cur[w]))

\* C6: when upsert_request_error and upsert_request_success were called for
\* the same id one right after the other, in either order and on any earlier
\* table content, the table holds exactly one row for the id and it is a
\* success row.
C6_ErrorSuccessRace ==
    Len(calls) >= 2 =>
        LET a == calls[Len(calls) - 1]
            b == calls[Len(calls)]
        IN (a.id = b.id /\ {a.op, b.op} = {"error", "success"})
           => /\ HasSuccessRow(requests, b.id)
              /\ Cardinality(RowsOf(requests, b.id)) = 1

\* C6 witness: the error was written after the success, and the earlier
\* content for the id was an error row.
C6_Witness ==
    /\ Len(calls) = 3
    /\ calls[1].op = "error" /\ calls[2].op = "success" /\ calls[3].op = "error"
    /\ calls[1].id = calls[2].id /\ calls[2].id = calls[3].id
    /\ HasSuccessRow(requests, calls[3].id)

\* C7: upsert_request_error adds an error row when the id has no row, and
\* leaves the whole table unchanged when the id has a row of any state; the
\* table never holds two rows of one id.
C7_ErrorOnlyWhenAbsent ==
    /\ \A r1 \in requests, r2 \in requests : r1.id = r2.id => r1 = r2
    /\ (calls # <<>> /\ LastCall.op = "error") =>
          IF RowsOf(before, LastCall.id) # {}
          THEN requests = before
          ELSE requests = before \cup
                   {Row(LastCall.id, "error", None, Some(LastCall.err), 0)}

\* C7 witness: upsert_request_error was called for an id recorded as success.
C7_Witness ==
    /\ calls # <<>> /\ LastCall.op = "error"
    /\ HasSuccessRow(before, LastCall.id)
    /\ HasSuccessRow(requests, LastCall.id)

\* C8: after upsert_request_success(id, n) the id has exactly one row: state
\* success, num_results n, error NULL; the rows of other ids are unchanged.
C8_SuccessUpserts ==
    (calls # <<>> /\ LastCall.op = "success") =>
        /\ RowsOf(requests, LastCall.id) =
               {Row(LastCall.id, "success", Some(LastCall.n), None, 0)}
        /\ \A id \in DbIds \ {LastCall.id} : RowsOf(requests, id) = RowsOf(before, id)

\* C8 witness: the success replaced an error row.
C8_Witness ==
    /\ calls # <<>> /\ LastCall.op = "success"
    /\ HasErrorRow(before, LastCall.id)
    /\ ~HasErrorRow(requests, LastCall.id)

\* C9: check_request_success(id) returns true when the id has a success row,
\* false when it has no row and false when it has an error row.
C9_CheckIffSuccess ==
    (calls # <<>> /\ LastCall.op = "check") =>
        /\ RowsOf(requests, LastCall.id) = {} => LastCall.result = FALSE
        /\ HasErrorRow(requests, LastCall.id) => LastCall.result = FALSE
        /\ HasSuccessRow(requests, LastCall.id) => LastCall.result = TRUE

\* C9 witness: the check answered false for an id that has an error row.
C9_Witness ==
    /\ calls # <<>> /\ LastCall.op = "check"
    /\ HasErrorRow(requests, LastCall.id)
    /\ LastCall.result = FALSE

\* C10: each time process_request returns an error, the worker leaves an
\* error row for the request's id in the table and appends the request, with
\* every field as received, to the queue.
C10_ErrorRequeues ==
    [][\A w \in Clients :
          (pc[w] = "record" /\ pc'[w] = "recv" /\ ~res[w].ok)
          => /\ HasErrorRow(requests', ReqId(cur[w]))
             /\ queue' = Append(queue, cur[w])]_vars

\* C10 witness: the only request sent so far failed twice; it has an error
\* row and is in the queue again.
C10_Witness ==
    /\ nfail = 2 /\ run = 0 /\ sent = 1
    /\ Len(queue) = 1 /\ HasErrorRow(requests, ReqId(queue[1]))
    /\ \A w \in Clients : cur[w] = NoReq

----------------------------------------------------------------------------
(* Claims on the partitioner, checked under SpecAtomize. A facet tuple is   *)
(* <<course, stroke, distance, day, age, zone>>; a request matches it when   *)
(* every field of the request is the wildcard or admits the tuple's value.  *)

Range(seq) == {seq[i] : i \in DOMAIN seq}
AllStrokes == Range(IND_STROKES) \cup {"FreestyleRelay", "MedleyRelay"}
Ages == 0..MaxAge

CoursesOf(r) == IF r.course = "All" THEN Range(COURSES) ELSE {r.course}
StrokesOf(r) == IF r.stroke = "All" THEN AllStrokes ELSE {r.stroke}
DistancesOf(r) == IF r.distance = 0 THEN Range(DISTANCES) ELSE {r.distance}
DaysOf(r) == r.from_date..r.to_date
AgesOf(r) ==
    {a \in Ages : /\ (r.start_age # None => r.start_age[1] <= a)
                  /\ (r.end_age # None => a <= r.end_age[1])}
ZonesOf(r) == IF r.zone = "All" THEN Range(ZONES) ELSE {r.zone}

\* Two requests match a common facet tuple.
Overlap(a, b) ==
    /\ CoursesOf(a) \cap CoursesOf(b) # {}
    /\ StrokesOf(a) \cap StrokesOf(b) # {}
    /\ DistancesOf(a) \cap DistancesOf(b) # {}
    /\ DaysOf(a) \cap DaysOf(b) # {}
    /\ AgesOf(a) \cap AgesOf(b) # {}
    /\ ZonesOf(a) \cap ZonesOf(b) # {}

\* The tuples <<course, individual stroke, distance, day, age>> a request
\* admits and whose event is in VALID_EVENTS.
AllowedTuples(r) ==
    {t \in CoursesOf(r) \X (StrokesOf(r) \cap Range(IND_STROKES)) \X DistancesOf(r)
             \X DaysOf(r) \X AgesOf(r) :
        SwimEvent(t[3], t[2], t[1]) \in VALID_EVENTS}

Matches(r, t) ==
    /\ t[1] \in CoursesOf(r) /\ t[2] \in StrokesOf(r) /\ t[3] \in DistancesOf(r)
    /\ t[4] \in DaysOf(r) /\ t[5] \in AgesOf(r)

\* The product of the numbers of concrete values of a request's facets.
FacetProduct(r) ==
    Cardinality(CoursesOf(r)) * Cardinality(StrokesOf(r)) * Cardinality(DistancesOf(r))
    * Cardinality(DaysOf(r)) * Cardinality(AgesOf(r)) * Cardinality(ZonesOf(r))

\* The rule of divide that is the first to apply to a request.
FirstRule(r, f) ==
    IF f.course /\ r.course = "All" THEN "course"
    ELSE IF f.stroke /\ r.stroke = "All" THEN "stroke"
    ELSE IF f.distance /\ r.distance = 0 THEN "distance"
    ELSE IF f.date /\ r.from_date # r.to_date THEN "date"
    ELSE IF f.age /\ r.start_age = Some(0) /\ r.end_age = None THEN "age"
    ELSE IF f.zone /\ r.zone = "All" THEN "zone"
    ELSE "none"

\* The fields a rule refines.
RuleFields(rule) ==
    CASE rule = "date" -> {"from_date", "to_date"}
      [] rule = "age" -> {"start_age", "end_age"}
      [] rule = "none" -> {}
      [] OTHER -> {rule}

Divided == divided # <<>>
AtomizeDone == pops > 0 /\ atomize_queue = <<>>
ConcreteEvent(r) == r.course # "All" /\ r.stroke # "All" /\ r.distance # 0

\* C12: the children one call of divide returns match no common facet tuple
\* pairwise, and neither do any two leaves atomize returns.
C12_Disjoint ==
    /\ Divided =>
          \A i, j \in 1..Len(divided.children) :
              i < j => ~Overlap(divided.children[i], divided.children[j])
    /\ AtomizeDone =>
          \A i, j \in 1..Len(output) : i < j => ~Overlap(output[i], output[j])

\* C12 witness: atomize has returned the 52 leaves of a two-day request of
\* one event with ages 0 and up: two days times 26 age buckets.
C12_Witness ==
    /\ AtomizeDone /\ Len(output) = 52
    /\ ConcreteEvent(root_req) /\ root_req.to_date = root_req.from_date + 1

\* C13: when atomize has returned, every tuple <<course, individual stroke,
\* distance, day, age>> that the request admits and whose event is in
\* VALID_EVENTS is matched by at least one leaf.
C13_Exhaustive ==
    AtomizeDone =>
        \A t \in AllowedTuples(root_req) : \E i \in 1..Len(output) : Matches(output[i], t)

\* C13 witness: atomize has returned for a request with wildcard stroke and
\* distance over more than one day and over ages 0 and up.
C13_Witness ==
    /\ AtomizeDone /\ Len(output) > 1
    /\ root_req.stroke = "All" /\ root_req.distance = 0
    /\ root_req.from_date < root_req.to_date
    /\ by.stroke /\ by.distance /\ by.date
    /\ AllowedTuples(root_req) # {}

\* C14 as claimed: divide never returns a child equal to its parent.
C14_ChildNeverParent ==
    Divided => \A i \in 1..Len(divided.children) : divided.children[i] # divided.r

\* C15 as claimed, on requests with from_date <= to_date: the number of
\* iterations atomize performs is at most the product of the numbers of
\* concrete values of the request's facets.
C15_PopsAtMostProduct ==
    root_req.from_date <= root_req.to_date => pops <= FacetProduct(root_req)

\* C15 amended: on requests with from_date <= to_date the number of
\* iterations is at most twice that product minus one: atomize also pops
\* every request that divide splits, not only the leaves.
C15_PopsAtMostTwiceProduct ==
    root_req.from_date <= root_req.to_date => pops <= 2 * FacetProduct(root_req) - 1

\* C15 witness: atomize has returned for a two-day request of one event with
\* pinned age and zone after 3 iterations, the product being 2.
C15_Witness ==
    /\ AtomizeDone /\ pops = 3
    /\ FacetProduct(root_req) = 2
    /\ root_req.to_date = root_req.from_date + 1

\* C16: the children divide returns differ from the parent only in the
\* fields of the first rule that applies, in the order course, stroke,
\* distance, date, age, zone; the course, stroke and zone rules return one
\* child per concrete value, and divide returns nothing when no rule applies.
C16_FirstRuleOnly ==
    Divided =>
        LET p == divided.r
            cs == divided.children
            rule == FirstRule(p, by)
        IN /\ \A i \in 1..Len(cs) : \A f \in (DOMAIN p) \ RuleFields(rule) : cs[i][f] = p[f]
           /\ rule = "none" => Len(cs) = 0
           /\ rule = "course" => Len(cs) = Len(COURSES)
                                  /\ \A i \in 1..Len(cs) : cs[i].course = COURSES[i]
           /\ rule = "stroke" => Len(cs) = Len(IND_STROKES)
                                  /\ \A i \in 1..Len(cs) : cs[i].stroke = IND_STROKES[i]
           /\ rule = "zone" => Len(cs) = Len(ZONES)
                                /\ \A i \in 1..Len(cs) : cs[i].zone = ZONES[i]

\* C16 witness: divide was called on course=All, stroke=Freestyle, distance=0
\* and returned 3 children, each with stroke=Freestyle and distance=0.
C16_Witness ==
    /\ Divided
    /\ divided.r.course = "All" /\ divided.r.stroke = "Freestyle" /\ divided.r.distance = 0
    /\ Len(divided.children) = 3
    /\ \A i \in 1..3 : divided.children[i].stroke = "Freestyle"
                       /\ divided.children[i].distance = 0

\* C17: for a request on which the date rule is the first to apply and whose
\* from_date is before its to_date, divide returns exactly two children
\* [from_date, m] and [m + 1, to_date] with from_date <= m < to_date; a
\* two-day range gives the two single days; a one-day range is not split by
\* date.
C17_DateBisect ==
    Divided =>
        LET p == divided.r
            cs == divided.children
        IN /\ (FirstRule(p, by) = "date" /\ p.from_date < p.to_date) =>
                 /\ Len(cs) = 2
                 /\ \E m \in p.from_date..(p.to_date - 1) :
                        /\ cs[1] = [p EXCEPT !.to_date = m]
                        /\ cs[2] = [p EXCEPT !.from_date = m + 1]
                 /\ p.to_date = p.from_date + 1 =>
                        /\ cs[1].to_date = p.from_date
                        /\ cs[2].from_date = p.to_date
           /\ p.from_date = p.to_date =>
                 \A i \in 1..Len(cs) : /\ cs[i].from_date = p.from_date
                                       /\ cs[i].to_date = p.to_date

\* C17 witness: divide has split a four-day range of one event.
C17_Witness ==
    /\ Divided /\ ConcreteEvent(divided.r)
    /\ divided.r.to_date = divided.r.from_date + 3
    /\ Len(divided.children) = 2

\* C18: for a request on which the distance rule is the first to apply,
\* divide returns exactly one child for every distance d of DISTANCES with
\* (d, stroke, course) in VALID_EVENTS and no other child; no child keeps the
\* wildcard distance.
C18_DistancePruned ==
    Divided =>
        LET p == divided.r
            cs == divided.children
        IN FirstRule(p, by) = "distance" =>
              /\ \A d \in Range(DISTANCES) :
                    Cardinality({i \in 1..Len(cs) : cs[i].distance = d})
                      = IF SwimEvent(d, p.stroke, p.course) \in VALID_EVENTS THEN 1 ELSE 0
              /\ \A i \in 1..Len(cs) : cs[i].distance \in Range(DISTANCES)

\* C18 witness: divide has split the wildcard distance of the individual
\* medley in SCY into 100, 200 and 400.
C18_Witness ==
    /\ Divided
    /\ divided.r.course = "SCY" /\ divided.r.stroke = "IndividualMedley"
    /\ divided.r.distance = 0
    /\ Len(divided.children) = 3
    /\ {divided.children[i].distance : i \in 1..3} = {100, 200, 400}

\* C19 as claimed: for a one-day request of one event whose start_age and
\* end_age are not pinned to the same value, divide returns two children that
\* cut the age range at a midpoint m, with an unbounded end taken as 51 and
\* kept unbounded in the upper child.
C19_AgeBisect ==
    Divided =>
        LET p == divided.r
            cs == divided.children
            lo == IF p.start_age = None THEN 0 ELSE p.start_age[1]
            hi == IF p.end_age = None THEN 51 ELSE p.end_age[1]
        IN (/\ by.age /\ ConcreteEvent(p) /\ p.from_date = p.to_date
            /\ ~(p.start_age # None /\ p.start_age = p.end_age))
           => /\ Len(cs) = 2
              /\ \E m \in lo..hi :
                    /\ cs[1] = [p EXCEPT !.start_age = Some(lo), !.end_age = Some(m)]
                    /\ cs[2] = [p EXCEPT !.start_age = Some(m + 1)]

\* C19 amended: for a one-day request of one event, divide splits by age only
\* when start_age is 0 and end_age is unbounded, and then into 26 children:
\* ages 0..5, each single age 6..29, and 30 and up; for any other age pair no
\* child differs from the request in its ages.
C19_AgeBuckets ==
    Divided =>
        LET p == divided.r
            cs == divided.children
        IN (by.age /\ ConcreteEvent(p) /\ p.from_date = p.to_date) =>
              IF p.start_age = Some(0) /\ p.end_age = None
              THEN /\ Len(cs) = 26
                   /\ cs[1] = [p EXCEPT !.start_age = Some(0), !.end_age = Some(5)]
                   /\ \A k \in 6..29 :
                         cs[k - 4] = [p EXCEPT !.start_age = Some(k), !.end_age = Some(k)]
                   /\ cs[26] = [p EXCEPT !.start_age = Some(30), !.end_age = None]
              ELSE \A i \in 1..Len(cs) : /\ cs[i].start_age = p.start_age
                                         /\ cs[i].end_age = p.end_age

\* C19 witness: divide was called with by_age on a one-day request of one
\* event with ages 0 and up and returned the 26 buckets.
C19_Witness ==
    /\ Divided /\ by.age
    /\ ConcreteEvent(divided.r) /\ divided.r.from_date = divided.r.to_date
    /\ divided.r.start_age = Some(0) /\ divided.r.end_age = None
    /\ Len(divided.children) = 26

----------------------------------------------------------------------------
(* Claim on the request identity, checked under SpecIdentity. *)

\* The facets the identity is claimed to be built from.
IdentityFacets ==
    {"gender", "course", "stroke", "distance", "from_date", "to_date",
     "start_age", "end_age", "zone", "members_only", "best_only", "max_results"}

\* C20 as claimed: two requests have the same identity string if and only if
\* they agree on gender, course, stroke, distance, dates, ages, zone, the
\* members-only and best-only flags and the result cap.
C20_IdentityInjective ==
    ids # <<>> =>
        (ids[1] = ids[2] <=> \A f \in IdentityFacets : pair[2][f] = pair[3][f])

----------------------------------------------------------------------------
(* Claim on completion marks. *)

\* The file of an id holds every row of the search that wrote it.
WholeFile(files, id) == \E f \in files : f.id = id /\ f.rows = f.found

\* C11 as claimed, for the legacy mirror: an id a run skips as already made
\* has a result file that holds the whole record set of a successful search.
C11_CompleteOnlyWhenWritten ==
    \A id \in glob_set : WholeFile(results, id)

\* C11 for swimrs-cli: an id with a success row of n > 0 results has its
\* result file with n rows.
C11_SuccessOnlyWhenWritten ==
    \A r \in requests :
        (r.state = "success" /\ r.num_results[1] > 0) => <<r.id, r.num_results[1]>> \in results

----------------------------------------------------------------------------
(* The pacing at the end of one iteration of the loop of process_requests.  *)
(* Time is counted in ticks, TicksPerSec of them to the second. `wait` is    *)
(* the time from `let start = Instant::now()` to the return of               *)
(* req_rx.recv(), `took` the time from there to `let end = Instant::now()`,  *)
(* and `rand` the value of rand::random::<f32>() in steps of 1/RandSteps.    *)

\* Duration::as_secs: whole seconds, the rest is dropped.
as_secs(ticks) == ticks \div TicksPerSec

\* (rand::random::<f32>() * 5.0 + 5.0) as u64
delay(rand) == (5 * rand + 5 * RandSteps) \div RandSteps

\* let delta = end.duration_since(start).as_secs(): start was taken before
\* the recv.
delta(wait, took) == as_secs(wait + took)

\* if delta < delay { sleep(Duration::from_secs(delay - delta)) }, in seconds.
sleep(wait, took, rand) ==
    IF delta(wait, took) < delay(rand) THEN delay(rand) - delta(wait, took) ELSE 0

InitPacing ==
    /\ pace \in [wait : 0..MaxTicks, took : 0..MaxTicks, rand : 0..(RandSteps - 1),
                  ok : BOOLEAN, slept : {-1}]
    /\ InitPipeline /\ InitStore /\ NoAtomize /\ NoIdentity /\ NoLegacy
    /\ NoTasks /\ NoSmart /\ NoTransport

\* The end of the iteration for a request that was fetched, after the Ok arm
\* or the Err arm of the match.
pacing ==
    /\ pace.slept = -1
    /\ pace' = [pace EXCEPT !.slept = sleep(pace.wait, pace.took, pace.rand)]
    /\ UNCHANGED <<pipelineVars, storeVars, atomizeVars, identityVars, legacyVars,
                   taskVars, smartVars, transportVars>>

NextPacing == pacing

SpecPacing == InitPacing /\ [][NextPacing]_vars

----------------------------------------------------------------------------
(* The transports of the pool: start_mirror builds one client per index i   *)
(* of 0..num_clients, num_clients being a u16, and moves it into the task   *)
(* it spawns. Two clients of the pool are followed.                         *)

\* Indexes a client of the pool can have.
WatchedClients == {0, 1, 2, 12535, 12536, 12537, 65534}

\* Mutant: the index is left out of the proxy address.
proxy_port_shared(i, overflow_checks) == Some(53000)

\* 53000 + i in format!("socks5://127.0.0.1:{}", 53000 + i), i: u16: past
\* 65535 the addition panics in a build with overflow checks and wraps in a
\* build without.
proxy_port(i, overflow_checks) ==
    IF 53000 + i < 65536 THEN Some(53000 + i)
    ELSE IF overflow_checks THEN None
    ELSE Some((53000 + i) % 65536)

InitTransport ==
    /\ proxies \in [a : WatchedClients, b : WatchedClients, overflow_checks : BOOLEAN,
                     ports : {<<>>}]
    /\ proxies.a < proxies.b
    /\ wire = {}
    /\ InitPipeline /\ InitStore /\ NoAtomize /\ NoIdentity /\ NoLegacy
    /\ NoTasks /\ NoPace /\ NoSmart

\* The loop `for i in 0..num_clients`: Proxy::all, ClientBuilder::proxy,
\* TopTimesClient::new and tokio::spawn(process_requests(client, ..)). A
\* panic in the loop ends start_mirror; the clients after it are never built.
new_clients ==
    /\ proxies.ports = <<>>
    /\ LET pa == proxy_port(proxies.a, proxies.overflow_checks)
           pb == proxy_port(proxies.b, proxies.overflow_checks)
       IN proxies' = [proxies EXCEPT !.ports = <<pa, IF pa = None THEN None ELSE pb>>]
    /\ UNCHANGED <<wire, pipelineVars, storeVars, atomizeVars, identityVars, legacyVars,
                   taskVars, paceVars, smartVars>>

\* client.fetch_html(req) in the task of a followed client: self.client is
\* the reqwest client built with the proxy of that index.
proxied_fetch(k) ==
    /\ proxies.ports # <<>>
    /\ proxies.ports[k] # None
    /\ LET i == IF k = 1 THEN proxies.a ELSE proxies.b
       IN /\ <<i, proxies.ports[k][1]>> \notin wire
          /\ wire' = wire \cup {<<i, proxies.ports[k][1]>>}
    /\ UNCHANGED <<proxies, pipelineVars, storeVars, atomizeVars, identityVars,
                   legacyVars, taskVars, paceVars, smartVars>>

NextTransport ==
    \/ new_clients
    \/ \E k \in 1..2 : proxied_fetch(k)

SpecTransport == InitTransport /\ [][NextTransport]_vars

----------------------------------------------------------------------------
(* The producer alone, for windows of every shape: to_date can be earlier   *)
(* than from_date.                                                          *)

InitProduce ==
    /\ from_date \in 0..MaxDays
    /\ to_date \in (-MaxSpan)..MaxSpan
    /\ sent = 0
    /\ queue = <<>>
    /\ pc = [w \in Clients |-> "warmup"]
    /\ cur = [w \in Clients |-> NoReq]
    /\ res = [w \in Clients |-> NoRes]
    /\ requests = {}
    /\ results = {}
    /\ nfail = 0
    /\ run = 0
    /\ cookies = {}
    /\ InitStore /\ NoAtomize /\ NoIdentity /\ NoLegacy /\ NoHarness

NextProduce == produce_requests

SpecProduce == InitProduce /\ [][NextProduce]_vars

----------------------------------------------------------------------------
(* Claims on the worker tasks of swimrs-cli. *)

\* The number of places a request is at: positions of the queue and workers
\* that hold it.
Copies(q) ==
    Cardinality({i \in 1..Len(queue) : queue[i] = q})
    + Cardinality({w \in Clients : cur[w] = q})

\* C21: a request the producer sent is at one place at most, a position of
\* the queue or one worker between its recv and the end of its outcome
\* handling; it is at no place only when its id has a success row. No two
\* workers hold requests of one id at a time.
C21_OneOwner ==
    /\ \A k \in 1..sent :
          LET q == SeedRequest(from_date, to_date, k)
          IN /\ Copies(q) <= 1
             /\ Copies(q) = 0 => HasSuccessRow(requests, ReqId(q))
    /\ \A v, w \in Clients :
          (v # w /\ cur[v] # NoReq /\ cur[w] # NoReq) => ReqId(cur[v]) # ReqId(cur[w])

\* C21 witness: two workers are in flight at a time, on different requests.
C21_Witness ==
    \E v, w \in Clients :
        /\ v # w /\ pc[v] = "fetch" /\ pc[w] = "fetch"
        /\ cur[v] # cur[w] /\ queue = <<>>

\* C22: a worker that waits on the queue or holds a request has filled its
\* cookie store: its one warm-up ended with success before its first recv.
C22_WarmBeforeRecv ==
    \A w \in Clients :
        (pc[w] = "recv" \/ cur[w] # NoReq) => w \in cookies

\* C22 witness: one worker holds a request while another has not finished
\* its warm-up.
C22_Witness ==
    \E v, w \in Clients :
        /\ pc[v] = "fetch" /\ v \in cookies
        /\ pc[w] = "warmup" /\ w \notin cookies

\* C23: the step in which the warm-up of one worker fails changes nothing
\* but that worker's position: the queue, the producer and the other
\* workers are as before. The worker stays stopped for the rest of the run
\* and holds no request.
C23_WarmupFailureLocal ==
    [][\A w \in Clients :
          /\ (pc[w] = "warmup" /\ pc'[w] = "exited")
             => /\ \A v \in Clients \ {w} : pc'[v] = pc[v]
                /\ UNCHANGED <<queue, sent, cur, res, requests, results>>
          /\ (pc[w] = "exited" /\ run' = run)
             => (pc'[w] = "exited" /\ cur'[w] = NoReq /\ w \notin cookies')]_vars

\* C23 witness: the warm-up of one worker failed; the producer sent every
\* request and another worker made them all.
C23_Witness ==
    /\ run = 0 /\ nfail = 0
    /\ \E w \in Clients : pc[w] = "exited"
    /\ sent = NumSeedRequests(from_date, to_date) /\ queue = <<>>
    /\ \A q \in SeedRequestSet : HasSuccessRow(requests, ReqId(q))

\* C24: a worker whose store call failed has panicked: it stays where it
\* is and takes nothing more from the queue. A worker leaves the check only
\* with the answer the table gives, and goes back to the queue from the
\* outcome handling only when the outcome is in the table.
C24_NoProgressPastFailure ==
    [][\A w \in Clients :
          /\ pc[w] = "panicked"
             => (pc'[w] = "panicked" /\ cur'[w] = cur[w] /\ queue' # Append(queue, cur[w]))
          /\ (pc[w] = "check" /\ pc'[w] = "fetch")
             => ~HasSuccessRow(requests, ReqId(cur[w]))
          /\ (pc[w] = "check" /\ pc'[w] = "recv")
             => HasSuccessRow(requests, ReqId(cur[w]))
          /\ (pc[w] = "record" /\ pc'[w] = "recv")
             => IF res[w].ok
                THEN \E r \in requests' :
                        /\ r.id = ReqId(cur[w]) /\ r.state = "success"
                        /\ r.num_results = Some(res[w].n)
                ELSE RowsOf(requests', ReqId(cur[w])) # {}]_vars

\* C24 witness: a worker panicked on recording a fetch that returned Ok, the
\* table has no row of the id, and another worker is at work on another
\* request.
C24_Witness ==
    \E v, w \in Clients :
        /\ pc[w] = "panicked" /\ cur[w] # NoReq /\ res[w].ok /\ res[w].n > 0
        /\ RowsOf(requests, ReqId(cur[w])) = {}
        /\ pc[v] = "await" /\ cur[v] # cur[w]

\* The requests sent that have no success row yet and are not doomed.
Pending ==
    {q \in {SeedRequest(from_date, to_date, k) : k \in 1..sent} :
        ReqId(q) \notin doomed /\ ~HasSuccessRow(requests, ReqId(q))}

\* C25: while an identity fails every time, a worker is live and a request
\* of another identity is not made yet, the run is not stuck: some task can
\* take a step.
C25_OthersNotBlocked ==
    (/\ doomed # {}
     /\ \E id \in doomed : HasErrorRow(requests, id)
     /\ \E w \in Clients : Live(w)
     /\ Pending # {})
    => ENABLED NextTasks

\* C28: a worker that waits for the answer to its request leaves that wait:
\* the fetch returns with the page or with an error.
C28_FetchReturns ==
    \A w \in Clients : pc[w] = "await" => ENABLED response(w)

\* C29: the gauge reads the number of workers between increment_gauge! and
\* decrement_gauge!, zero when no worker is there.
C29_GaugeMatchesInFlight ==
    active_count = Cardinality({w \in Clients : pc[w] = "parse"})

\* C27: the process does not end by itself: start_mirror does not return.
C27_NeverTerminates == ~Terminated

\* C26: the sleep after a request that was fetched is the target minus the
\* whole seconds the request took, the wait on the queue not counted, and
\* zero when that is negative; the target is 5 to 10 seconds.
C26_SleepIsTargetMinusTook ==
    pace # <<>> /\ pace.slept # -1
    => /\ delay(pace.rand) \in 5..10
       /\ pace.slept >= 0
       /\ pace.slept = IF as_secs(pace.took) < delay(pace.rand)
                       THEN delay(pace.rand) - as_secs(pace.took) ELSE 0

\* The rest of C26, which holds: the target is 5 to 10 seconds and the sleep
\* is never negative and never longer than the target.
C26_SleepInRange ==
    pace # <<>> /\ pace.slept # -1
    => /\ delay(pace.rand) \in 5..10
       /\ pace.slept \in 0..delay(pace.rand)

----------------------------------------------------------------------------
(* Claims on gen_requests_smart, checked under SpecSmart. *)

\* gen_requests_smart returned: the Vec holds every request of the window.
SmartDone ==
    window # <<>> /\ Len(generated) = Len(gen_requests_smart(window[1], window[2]))

\* The tuples <<course, stroke, distance, day, age>> of the window whose
\* event is in VALID_EVENTS.
WindowTuples ==
    {t \in Range(COURSES) \X Range(IND_STROKES) \X Range(DISTANCES)
            \X (window[1]..window[2]) \X Ages :
        SwimEvent(t[3], t[2], t[1]) \in VALID_EVENTS}

\* The positions of the generated requests that match a tuple.
Matching(t) == {i \in DOMAIN generated : Matches(generated[i], t)}

\* C30: in the list gen_requests_smart returns, each day of the window, age
\* and valid event is matched by one request and one only.
C30_ExactlyOneRequest ==
    SmartDone => \A t \in WindowTuples : Cardinality(Matching(t)) = 1

\* What holds of C30: no tuple is matched by two requests, and each tuple
\* of an event of at most 200 (yards or metres) is matched by one.
C30_ShortEventsOnce ==
    SmartDone => \A t \in WindowTuples :
                    /\ Cardinality(Matching(t)) <= 1
                    /\ t[3] <= 200 => Cardinality(Matching(t)) = 1

----------------------------------------------------------------------------
(* Claims on the record a finished attempt leaves. *)

\* The row of the table that tells the outcome `r` of an attempt.
OutcomeRow(id, r) ==
    IF r.ok THEN Row(id, "success", Some(r.n), None, 0)
            ELSE Row(id, "error", None, Some(r.err), 0)

\* C31 as claimed: each time a worker finishes a request, the row of its id
\* is the outcome of that attempt, state and error text.
C31_RowIsLastOutcome ==
    [][\A w \in Clients :
          (pc[w] = "record" /\ pc'[w] = "recv")
          => RowsOf(requests', ReqId(cur[w])) = {OutcomeRow(ReqId(cur[w]), res[w])}]_vars

\* C31 amended: a finished attempt that succeeded leaves its success row in
\* place of whatever row the id had; one that failed leaves its error row
\* only when the id had no row, and changes nothing otherwise, so the error
\* text is that of the first failure.
C31_SuccessOverwritesErrorKeepsFirst ==
    [][\A w \in Clients :
          (pc[w] = "record" /\ pc'[w] = "recv")
          => LET id == ReqId(cur[w])
             IN IF res[w].ok \/ RowsOf(requests, id) = {}
                THEN RowsOf(requests', id) = {OutcomeRow(id, res[w])}
                ELSE requests' = requests]_vars

\* C31 witness: the one request sent failed twice and both attempts were
\* recorded; the table holds one error row for it.
C31_Witness ==
    /\ sent = 1 /\ nfail = 2
    /\ \A w \in Clients : cur[w] = NoReq /\ pc[w] # "panicked"
    /\ Len(queue) = 1
    /\ Cardinality(RowsOf(requests, ReqId(queue[1]))) = 1
    /\ HasErrorRow(requests, ReqId(queue[1]))

----------------------------------------------------------------------------
(* Claims on the warning marker. *)

\* C32 for swimrs-cli: a result file that holds as many times as the request
\* allows (max_results, the response may be truncated) has a warning marker
\* for its id.
C32_SaturatedIsFlagged ==
    \A q \in SeedRequestSet :
        <<ReqId(q), q.max_results>> \in results => ReqId(q) \in warnings

\* C32 for the legacy mirror, where it holds: a result.csv written for a
\* search that found 4900 times or more has a warning.txt beside it.
C32_LegacySaturatedIsFlagged ==
    \A f \in results : f.found >= 4900 => f.id \in warnings

----------------------------------------------------------------------------
(* Claims on the transports, checked under SpecTransport. *)

\* C33 as claimed: the client of index i has the proxy port 53000 + i, each
\* of its fetches goes through that port, and two clients never have one
\* port.
C33_PortIsBasePlusIndex ==
    proxies # <<>> /\ proxies.ports # <<>>
    => /\ proxies.ports = <<Some(53000 + proxies.a), Some(53000 + proxies.b)>>
       /\ \A f \in wire : f[2] = 53000 + f[1]
       /\ \A f, g \in wire : f[1] # g[1] => f[2] # g[2]

\* C33 amended: the client of index i has the proxy port
\* (53000 + i) mod 65536, which is 53000 + i for i < 12536, or the pool is
\* not built that far; each fetch of a client goes through the port the
\* client was built with, and two clients never have one port.
C33_OneTransportEach ==
    proxies # <<>> /\ proxies.ports # <<>>
    => /\ \A k \in 1..2 :
             LET i == IF k = 1 THEN proxies.a ELSE proxies.b
             IN proxies.ports[k] # None
                => /\ proxies.ports[k] = Some((53000 + i) % 65536)
                   /\ i < 12536 => proxies.ports[k] = Some(53000 + i)
       /\ (proxies.ports[1] # None /\ proxies.ports[2] # None)
          => proxies.ports[1] # proxies.ports[2]
       /\ \A f \in wire :
             \E k \in 1..2 : /\ f[1] = (IF k = 1 THEN proxies.a ELSE proxies.b)
                              /\ proxies.ports[k] = Some(f[2])
       /\ \A f, g \in wire : f[1] # g[1] => f[2] # g[2]

\* C33 witness: two clients have fetched, each through its own port.
C33_Witness ==
    /\ proxies # <<>> /\ proxies.a = 0 /\ proxies.b = 1
    /\ wire = {<<0, 53000>>, <<1, 53001>>}

----------------------------------------------------------------------------
(* Claims on the sizes of the date split, checked under SpecAtomize. *)

\* The number of days of a request's range.
Days(r) == r.to_date - r.from_date + 1

\* divide has bisected a range of at least two days.
DateSplit ==
    /\ Divided
    /\ FirstRule(divided.r, by) = "date"
    /\ divided.r.from_date < divided.r.to_date

\* C34 as claimed: the two children of a date split of n >= 2 days have
\* lengths that differ by one day at most.
C34_HalvesDifferByOne ==
    DateSplit =>
        LET l == Days(divided.children[1])
            r == Days(divided.children[2])
        IN l - r \in -1..1

\* C34 amended: the left child has (n - 1) div 2 days (one day when n = 2)
\* and the right child the rest, so the lengths differ by two days at most:
\* by one for odd n, by two for even n >= 4, by none for n = 2.
C34_HalvesDifferByTwo ==
    DateSplit =>
        LET n == Days(divided.r)
            l == Days(divided.children[1])
            r == Days(divided.children[2])
        IN /\ l = IF n = 2 THEN 1 ELSE (n - 1) \div 2
           /\ r = n - l
           /\ r - l \in 0..2
           /\ r - l = (IF n = 2 THEN 0 ELSE IF n % 2 = 1 THEN 1 ELSE 2)

\* C34 witness: a range of four days was split into one day and three.
C34_Witness ==
    /\ DateSplit
    /\ Days(divided.r) = 4
    /\ Days(divided.children[1]) = 1 /\ Days(divided.children[2]) = 3

----------------------------------------------------------------------------
(* Claims on what atomize returns, checked under SpecAtomize. *)

\* divide with the flags of the run.
DivideBy(r) == divide(r, by.course, by.stroke, by.distance, by.date, by.age, by.zone)

\* Each facet whose flag is set has a concrete value in the request.
Concretized(r) ==
    /\ by.course => r.course # "All"
    /\ by.stroke => r.stroke # "All"
    /\ by.distance => r.distance # 0
    /\ by.date => r.from_date = r.to_date

\* C35: each request in the output of atomize, called on a range that is
\* not inverted, is a leaf: divide returns no child for it and each facet
\* whose flag is set is concrete in it; when divide returns no child for the
\* argument, the output is the argument alone.
C35_OutputIsConcreteLeaf ==
    /\ root_req # NoReq /\ root_req.from_date <= root_req.to_date
       => \A i \in 1..Len(output) :
             DivideBy(output[i]) = <<>> /\ Concretized(output[i])
    /\ (AtomizeDone /\ DivideBy(root_req) = <<>>) => output = <<root_req>>

\* What holds of C35: divide returns no child for a request of the output,
\* and atomize of a request divide returns no child for returns that request
\* alone.
C35_OutputIsFixedPoint ==
    /\ \A i \in 1..Len(output) : DivideBy(output[i]) = <<>>
    /\ (AtomizeDone /\ DivideBy(root_req) = <<>>) => output = <<root_req>>

----------------------------------------------------------------------------
(* Claims on the whereabouts of the seeded requests, checked under Spec,    *)
(* where no store call fails.                                               *)

\* The number of places a sent request is at, its success row counted as one.
Places(q) == Copies(q) + (IF HasSuccessRow(requests, ReqId(q)) THEN 1 ELSE 0)

\* C36 as claimed: each request the producer has sent is at one place and
\* one only: a position of the queue, a worker, or the table as a success.
C36_ExactlyOnePlace ==
    \A k \in 1..sent : Places(SeedRequest(from_date, to_date, k)) = 1

\* C36 amended: a sent request is at one position of the queue or with one
\* worker, or else has a success row. It has a success row and is in the
\* queue or with a worker as well only in a run that was started on a table
\* that already held the row, and then a worker that holds it is at the
\* check that drops it.
C36_NoWorkLost ==
    \A k \in 1..sent :
        LET q == SeedRequest(from_date, to_date, k)
        IN /\ Places(q) \in 1..2
           /\ Copies(q) <= 1
           /\ Places(q) = 2
              => /\ run > 0
                 /\ \A w \in Clients : cur[w] = q => pc[w] = "check"

\* C36 witness: in a run started again, a request with a success row is in
\* the queue once more while the other request, which failed, is with a
\* worker.
C36_Witness ==
    /\ run = 1 /\ sent = 2
    /\ \E i \in 1..Len(queue) : HasSuccessRow(requests, ReqId(queue[i]))
    /\ \E w \in Clients : /\ pc[w] = "fetch"
                           /\ HasErrorRow(requests, ReqId(cur[w]))

----------------------------------------------------------------------------
(* Claim on completion, checked under SpecTasks. *)

\* Every request of the window has a success row, the queue is empty and no
\* worker holds a request.
Completed ==
    /\ sent = NumSeedRequests(from_date, to_date)
    /\ \A q \in SeedRequestSet : HasSuccessRow(requests, ReqId(q))
    /\ queue = <<>>
    /\ \A w \in Clients : cur[w] = NoReq

\* C37: when a worker has completed its warm-up, no store call has failed
\* and no identity fails for ever, the run is not stuck short of completion:
\* until every request has its success row, the queue is empty and nothing
\* is in flight, some task can take a step.
C37_NotStuckBeforeCompleted ==
    (/\ doomed = {}
     /\ cookies # {}
     /\ \A w \in Clients : pc[w] # "panicked"
     /\ ~Completed)
    => ENABLED NextTasks

----------------------------------------------------------------------------
(* Claims on the seed grid, checked under SpecProduce. *)

\* produce_requests returned.
Produced == sent = NumSeedRequests(from_date, to_date)

\* The positions of the queue with a request of one day, age row and gender.
Seeded(d, a, g) ==
    {i \in 1..Len(queue) :
        /\ queue[i].from_date = d /\ queue[i].to_date = d
        /\ queue[i].start_age = a[1] /\ queue[i].end_age = a[2]
        /\ queue[i].gender = g}

\* C38: for every window, inverted ones included, each request the producer
\* sends is for one day of [from_date, to_date], and when it has returned
\* the queue holds one request for each day of the window, age row and
\* gender of Male and Female.
C38_OnlyDaysOfWindow ==
    /\ \A i \in 1..Len(queue) :
          /\ queue[i].from_date = queue[i].to_date
          /\ queue[i].from_date \in from_date..to_date
    /\ Produced =>
          \A d \in from_date..to_date : \A j \in 1..Len(SeedAges) :
              \A g \in {"Male", "Female"} :
                  Cardinality(Seeded(d, SeedAges[j], g)) = 1

\* What holds of C38: the same for a window whose to_date is not earlier
\* than the day before from_date.
C38_OnlyDaysOfProperWindow ==
    to_date >= from_date - 1 => C38_OnlyDaysOfWindow

----------------------------------------------------------------------------
(* Claim on the age buckets, checked under SpecAtomize. *)

\* The start_age and end_age of a sequence of requests, as rows.
AgeRows(reqs) == [i \in 1..Len(reqs) |-> <<reqs[i].start_age, reqs[i].end_age>>]

\* gen_requests_smart's rows as it writes them to a request.
SmartAgeRows ==
    [i \in 1..Len(smart_age_range) |->
        <<Some(smart_age_range[i][1]),
          IF smart_age_range[i][2] = 51 THEN None ELSE Some(smart_age_range[i][2])>>]

\* A row admits an age.
Admits(row, a) ==
    /\ row[1][1] <= a
    /\ (row[2] # None => a <= row[2][1])

\* The rows start at age 0, each row but the last ends at an age not below
\* its start, the next starts one year later, and the last has no end.
Consecutive(rows) ==
    /\ Len(rows) >= 1
    /\ rows[1][1] = Some(0)
    /\ \A i \in 1..(Len(rows) - 1) :
          /\ rows[i][1] # None /\ rows[i][2] # None
          /\ rows[i][1][1] <= rows[i][2][1]
          /\ rows[i + 1][1] = Some(rows[i][2][1] + 1)
    /\ rows[Len(rows)][1] # None
    /\ rows[Len(rows)][2] = None

\* Every age is admitted by exactly one row.
PartitionOfAges(rows) ==
    \A a \in Ages :
        \E i \in 1..Len(rows) :
            \A j \in 1..Len(rows) : Admits(rows[j], a) <=> j = i

\* divide applied its age rule.
AgeRuleApplied ==
    /\ Divided /\ by.age
    /\ ConcreteEvent(divided.r) /\ divided.r.from_date = divided.r.to_date
    /\ divided.r.start_age = Some(0) /\ divided.r.end_age = None

\* C39: the age rows of produce_requests and of gen_requests_smart, and the
\* children divide's age rule returns, are each a partition of the ages from
\* 0 up: every age is in exactly one bucket, the buckets follow one another
\* without gap or overlap, and the last bucket has no upper end. The first
\* buckets are 0-7 for the seed grid and 0-5 for divide, the last ones start
\* at 23 and at 30. The tables are looked at in the states in which divide
\* has applied its age rule.
C39_AgeBucketsPartition ==
    AgeRuleApplied =>
        LET rows == AgeRows(divided.children)
        IN /\ Consecutive(rows) /\ PartitionOfAges(rows)
           /\ rows[1] = <<Some(0), Some(5)>>
           /\ rows[Len(rows)] = <<Some(30), None>>
           /\ \A i \in 2..(Len(rows) - 1) : rows[i][1] = rows[i][2]
           /\ Consecutive(age_range) /\ PartitionOfAges(age_range)
           /\ age_range[1] = <<Some(0), Some(7)>>
           /\ age_range[Len(age_range)] = <<Some(23), None>>
           /\ \A i \in 2..(Len(age_range) - 1) : age_range[i][1] = age_range[i][2]
           /\ Consecutive(SmartAgeRows) /\ PartitionOfAges(SmartAgeRows)

\* C39 witness: divide applied its age rule and the oldest age of the model
\* is in the open-ended last child only.
C39_Witness ==
    /\ AgeRuleApplied
    /\ LET rows == AgeRows(divided.children)
       IN /\ rows[Len(rows)][2] = None
          /\ \A i \in 1..Len(rows) : Admits(rows[i], MaxAge) <=> i = Len(rows)

====
